---- MODULE Spec2Model ----
(***************************************************************************)
(* Publish pipeline of src/src/firebase.py: prepare_deployment, deploy,    *)
(* restore_index_html and deploy_dashboard, as a state machine over the    *)
(* files under firebase_public, the Firestore authorization document, the  *)
(* Firebase Admin module globals and the hosting site.                     *)
(*                                                                         *)
(* File contents and strings are sequences of tokens.  A call of           *)
(* deploy_dashboard is a process p with a program counter pc[p]; every     *)
(* action is one step of the code, with the outcome of each external       *)
(* operation (file I/O, Firestore, subprocess) drawn from the outcomes     *)
(* that operation can have.                                                *)
(***************************************************************************)
EXTENDS Integers, Sequences, FiniteSets, TLC

\* Number of deploy_dashboard calls explored in one behaviour.
MaxRuns == 2

\* Callers of deploy_dashboard.  The design assumes one pipeline instance at a
\* time (Spec runs MainProcs only).
Procs == {"A", "B"}
MainProcs == {"A"}

-----------------------------------------------------------------------------
(* Tokens of file contents *)

Text(i) == [t |-> "text", n |-> i]
TITLE_PLACEHOLDER == [t |-> "ph", n |-> 1]
DASHBOARD_DATA_PLACEHOLDER == [t |-> "ph", n |-> 2]
\* app_config.title
Title == [t |-> "title", n |-> 0]
\* hex(nonce || ciphertext || tag) produced under the k-th generated key
CipherHex(k) == [t |-> "cipher", n |-> k]
\* hex of the k-th generated key
KeyHex(k) == [t |-> "key", n |-> k]

IsCipher(tok) == tok.t = "cipher"
IsKey(tok) == tok.t = "key"

\* The template literal of restore_index_html: the placeholder-bearing page.
Template ==
    << Text(1), TITLE_PLACEHOLDER, Text(2), TITLE_PLACEHOLDER, Text(3),
       DASHBOARD_DATA_PLACEHOLDER, Text(4) >>

\* A replace that puts `new` at the end of a text without `old`.
ReplaceOrAppend(content, old, new) ==
    IF \E i \in 1..Len(content) : content[i] = old
    THEN [i \in 1..Len(content) |-> IF content[i] = old THEN new ELSE content[i]]
    ELSE Append(content, new)

\* str.replace(old, new) on a token sequence
Replace(content, old, new) ==
    [i \in 1..Len(content) |-> IF content[i] = old THEN new ELSE content[i]]

Contains(content, tok) == \E i \in 1..Len(content) : content[i] = tok
ContainsCipher(content) == \E i \in 1..Len(content) : IsCipher(content[i])
ContainsKey(content) == \E i \in 1..Len(content) : IsKey(content[i])
HasPlaceholders(content) ==
    /\ Contains(content, TITLE_PLACEHOLDER)
    /\ Contains(content, DASHBOARD_DATA_PLACEHOLDER)

\* What a write of `content` that fails after open(path, "w") truncated the
\* file leaves behind: a proper prefix.  Three are explored: the empty file,
\* half of the content, and the content less its last token.
Prefixes(content) ==
    { SubSeq(content, 1, k) : k \in {0, Len(content) \div 2, Len(content) - 1} }

-----------------------------------------------------------------------------
(* Strings of characters: RECIPIENT_EMAIL *)

Space == " "
Lower(c) == IF c = "A" THEN "a" ELSE IF c = "B" THEN "b" ELSE c

RECURSIVE LStrip(_)
LStrip(s) == IF s # <<>> /\ Head(s) = Space THEN LStrip(Tail(s)) ELSE s

RECURSIVE RStrip(_)
RStrip(s) ==
    IF s # <<>> /\ s[Len(s)] = Space THEN RStrip(SubSeq(s, 1, Len(s) - 1)) ELSE s

\* str.strip()
Strip(s) == RStrip(LStrip(s))
\* str.lower()
LowerStr(s) == [i \in 1..Len(s) |-> Lower(s[i])]

RECURSIVE FilterNonEmpty(_)
FilterNonEmpty(l) ==
    IF l = <<>> THEN <<>>
    ELSE IF Head(l) # <<>> THEN <<Head(l)>> \o FilterNonEmpty(Tail(l))
    ELSE FilterNonEmpty(Tail(l))

\* email_config.recipient_email: unset, or the list of its comma-separated
\* segments (the empty string is the single empty segment).
RecipientSamples ==
    { [set |-> FALSE, segs |-> << <<>> >>],
      [set |-> TRUE, segs |-> << <<>> >>],
      [set |-> TRUE, segs |-> << <<" ", "A">>, <<"b", " ">> >>],
      [set |-> TRUE, segs |-> << <<"a">>, <<>>, <<" ">> >>] }

Falsy(r) == ~r.set \/ r.segs = << <<>> >>

\* Variant: the segments that are blank once stripped are kept.
get_allowed_emails_keeping_blanks(r) ==
    IF Falsy(r) THEN <<>>
    ELSE [i \in 1..Len(r.segs) |-> LowerStr(Strip(r.segs[i]))]

get_allowed_emails(r) ==
    IF Falsy(r) THEN <<>>
    ELSE FilterNonEmpty([i \in 1..Len(r.segs) |-> LowerStr(Strip(r.segs[i]))])

-----------------------------------------------------------------------------
VARIABLES
    dirExists,      \* firebase_public exists
    indexExists,    \* firebase_public/index.html exists
    indexHtml,      \* its content
    dashboardHtml,  \* firebase_public/dashboard.html exists
    recipient,      \* email_config.recipient_email
    serviceAccount, \* FIREBASE_SERVICE_ACCOUNT is set
    verbose,        \* logging_utils._verbose
    firebaseApp,    \* _firebase_app is not None
    firestoreClient,\* _firestore_client is not None
    firestoreDoc,   \* the config/dashboard document
    hosted,         \* what the hosting site serves
    runs,           \* deploy_dashboard calls started; also numbers the keys
    pc,             \* position of each caller
    loc,            \* locals of the call
    hist,           \* what the call has done so far
    log,            \* logging calls of the call
    call,           \* the function examined on its own: inputs, frame, result
    user,           \* the viewer's page: firebase.auth().currentUser
    listening,      \* its onAuthStateChanged handler is registered
    dom,            \* its document
    shows,          \* its showDashboard calls suspended at an await
    signIns,        \* sign-ins so far
    report,         \* the script elements of the report the payload carries
    loads           \* the loadExternalScripts calls made, with their counters

vars == << dirExists, indexExists, indexHtml, dashboardHtml, recipient,
           serviceAccount, verbose, firebaseApp, firestoreClient, firestoreDoc,
           hosted, runs, pc, loc, hist, log, call,
           user, listening, dom, shows, signIns, report, loads >>

fsVars == << dirExists, indexExists, indexHtml, dashboardHtml >>
cfgVars == << recipient, serviceAccount, verbose >>
adminVars == << firebaseApp, firestoreClient >>
unitVars == << call >>
viewerVars == << user, listening, dom, shows, signIns, report, loads >>

None == [some |-> FALSE, text |-> <<>>]
Some(s) == [some |-> TRUE, text |-> s]

NoResult == [done |-> FALSE, returncode |-> 0, stdout |-> <<>>, stderr |-> ""]
NoDoc == [exists |-> FALSE, encryptionKey |-> KeyHex(0), authorizedEmails |-> <<>>]
NoSite == [published |-> FALSE, index |-> <<>>, plain |-> FALSE]
NoCall == [fn |-> "none"]

\* Content of #dashboard-container: nothing, or the report decrypted from the
\* k-th payload.
NoMarkup == [t |-> "empty", n |-> 0]
Plain(k) == [t |-> "plain", n |-> k]

\* firebase.auth().currentUser is null.
NoUser == <<>>

\* Nothing mounted yet.
NoMount == [some |-> FALSE, fetched |-> FALSE, decrypted |-> FALSE, stale |-> FALSE]

\* The page as the template and its style sheet give it: the login box with
\* the sign-in button, #error, #sign-out-btn and #loading not displayed, the
\* container empty, no script element appended to body.  `mount` keeps which
\* showDashboard call filled the container and `fetch` how the last get() of
\* the key document ended.
InitDom ==
    [ authenticated |-> FALSE, container |-> NoMarkup,
      error |-> <<>>, errorShown |-> FALSE, signOutShown |-> FALSE,
      loadingHidden |-> TRUE, signInHidden |-> FALSE, mount |-> NoMount,
      fetch |-> "none", body |-> <<>> ]

\* A report without script elements.
NoScripts == [external |-> 0, inline |-> 0]

\* The viewer's page just loaded, nobody signed in.
ViewerAtRest ==
    /\ user = NoUser
    /\ listening = FALSE
    /\ dom = InitDom
    /\ shows = <<>>
    /\ signIns = 0
    /\ report = NoScripts
    /\ loads = <<>>

InitLoc ==
    [ id |-> 0, allowed_emails |-> <<>>, encrypted_hex |-> CipherHex(0),
      key_hex |-> KeyHex(0), result |-> NoResult, url |-> None ]

InitHist ==
    [ preExists |-> FALSE, preIndex |-> <<>>, preStray |-> FALSE,
      preDoc |-> NoDoc, preSite |-> NoSite,
      step |-> "none", failed |-> "none",
      storeResult |-> "none", indexWrites |-> 0,
      removeRaised |-> FALSE,
      deployCalls |-> 0, direct |-> "none", fallback |-> "none",
      directCalls |-> 0, fallbackCalls |-> 0, strayAtInvoke |-> FALSE,
      deployedIndex |-> <<>>,
      report |-> <<>>,
      stdoutParsed |-> FALSE, rcRead |-> FALSE, firebaserc |-> "none",
      restoreCalls |-> 0, restore |-> "none", beforeRestore |-> <<>>,
      injectRead |-> <<>>, injectWrote |-> <<>>,
      ret |-> None ]

Init ==
    /\ dirExists \in BOOLEAN
    /\ indexExists \in BOOLEAN
    /\ dashboardHtml \in BOOLEAN
    /\ (~dirExists) => (~indexExists /\ ~dashboardHtml)
    /\ indexHtml = IF indexExists THEN Template ELSE <<>>
    /\ recipient \in RecipientSamples
    /\ serviceAccount \in BOOLEAN
    /\ verbose \in BOOLEAN
    /\ firebaseApp = FALSE
    /\ firestoreClient = FALSE
    /\ firestoreDoc = NoDoc
    /\ hosted = NoSite
    /\ runs = 0
    /\ pc = [p \in Procs |-> "idle"]
    /\ loc = [p \in Procs |-> InitLoc]
    /\ hist = [p \in Procs |-> InitHist]
    /\ log = [p \in Procs |-> <<>>]
    /\ call = NoCall
    /\ ViewerAtRest

-----------------------------------------------------------------------------
(* logging_utils *)

LogInfo(message) == [fn |-> "log_info", message |-> message, detail |-> ""]
LogVerbose(message) == [fn |-> "log_verbose", message |-> message, detail |-> ""]
LogError(message, detail) == [fn |-> "log_error", message |-> message, detail |-> detail]

\* What one logging call prints.
Printed(e) ==
    CASE e.fn = "log_info" -> << e.message >>
      [] e.fn = "log_verbose" -> IF verbose THEN << e.message >> ELSE <<>>
      [] OTHER -> IF verbose /\ e.detail # "" THEN << e.message, e.detail >>
                  ELSE << e.message >>

-----------------------------------------------------------------------------
(* deploy_dashboard is called *)

Start(p) ==
    /\ pc[p] \in {"idle", "done"}
    /\ runs < MaxRuns
    /\ runs' = runs + 1
    /\ pc' = [pc EXCEPT ![p] = "check"]
    /\ loc' = [loc EXCEPT ![p] = [InitLoc EXCEPT !.id = runs + 1]]
    /\ hist' = [hist EXCEPT ![p] =
                  [InitHist EXCEPT !.preExists = indexExists,
                                   !.preIndex = indexHtml,
                                   !.preStray = dashboardHtml,
                                   !.preDoc = firestoreDoc,
                                   !.preSite = hosted]]
    /\ log' = [log EXCEPT ![p] = <<>>]
    /\ UNCHANGED << fsVars, cfgVars, unitVars, viewerVars, adminVars, firestoreDoc, hosted >>

\* One step of the call ends: the caller moves to `next`, with `h` what the
\* call has done and `entries` what the step logged.
Finish(p, next, h, entries) ==
    /\ pc' = [pc EXCEPT ![p] = next]
    /\ hist' = [hist EXCEPT ![p] = h]
    /\ log' = [log EXCEPT ![p] = @ \o entries]

\* prepare_deployment returned False at step `at`: deploy_dashboard returns
\* None at once (if not prepare_deployment(...): return None).
Failed(h, at) == [h EXCEPT !.step = at, !.failed = at, !.ret = None]

\* Variant: only the directory is looked for.
PreconditionErrorDirOnly ==
    IF ~dirExists THEN "ERROR: firebase_public directory not found" ELSE ""

\* Variant: an empty identity list is refused.
PreconditionErrorOnNoEmails ==
    IF ~dirExists THEN "ERROR: firebase_public directory not found"
    ELSE IF ~indexExists THEN "ERROR: firebase_public/index.html not found"
    ELSE IF get_allowed_emails(recipient) = <<>>
    THEN "ERROR: No allowed emails configured (RECIPIENT_EMAIL)"
    ELSE ""

\* The existence checks that open prepare_deployment: the error logged by
\* the one that fails, "" when both pass.
PreconditionError ==
    IF ~dirExists THEN "ERROR: firebase_public directory not found"
    ELSE IF ~indexExists THEN "ERROR: firebase_public/index.html not found"
    ELSE ""

\* prepare_deployment: existence checks and get_allowed_emails
CheckPreconditions(p) ==
    /\ pc[p] = "check"
    /\ IF PreconditionError # ""
       THEN /\ Finish(p, "done", Failed(hist[p], "precondition"),
                  << LogInfo(PreconditionError) >>)
            /\ UNCHANGED loc
       ELSE /\ loc' = [loc EXCEPT ![p].allowed_emails = get_allowed_emails(recipient)]
            /\ Finish(p, "encrypt", [hist[p] EXCEPT !.step = "precondition"],
                  IF get_allowed_emails(recipient) = <<>>
                  THEN << LogVerbose("WARNING: No allowed emails configured (RECIPIENT_EMAIL)") >>
                  ELSE <<>>)
    /\ UNCHANGED << fsVars, cfgVars, unitVars, viewerVars, adminVars, firestoreDoc, hosted, runs >>

\* encrypt_dashboard_with_random_key: a fresh key and the payload under it.
encrypt_dashboard_with_random_key(id) ==
    [encrypted_hex |-> CipherHex(id), key_hex |-> KeyHex(id)]

\* prepare_deployment: read the dashboard file and encrypt it
Encrypt(p) ==
    /\ pc[p] = "encrypt"
    /\ \E o \in {"ok", "raises"} :
         IF o = "raises"
         THEN /\ Finish(p, "done", Failed(hist[p], "encrypt"),
                    << LogError("ERROR: Failed to encrypt dashboard", "exception") >>)
              /\ UNCHANGED loc
         ELSE LET e == encrypt_dashboard_with_random_key(loc[p].id) IN
              /\ loc' = [loc EXCEPT ![p].encrypted_hex = e.encrypted_hex,
                                    ![p].key_hex = e.key_hex]
              /\ Finish(p, "store_key", [hist[p] EXCEPT !.step = "encrypt"],
                    << LogVerbose("Dashboard encrypted with AES-256-GCM (random key)") >>)
    /\ UNCHANGED << fsVars, cfgVars, unitVars, viewerVars, adminVars, firestoreDoc, hosted, runs >>

-----------------------------------------------------------------------------
(* Firebase Admin and the key store *)

InitOutcomes == {"ok", "init_raises", "client_raises"}
SetOutcomes == {"ok", "raises"}

\* _init_firebase_admin with outcome o of the SDK calls: the value returned,
\* the module globals afterwards and what was logged.
init_firebase_admin(o) ==
    IF firebaseApp
    THEN [ret |-> TRUE, app |-> firebaseApp, client |-> firestoreClient, log |-> <<>>]
    ELSE IF ~serviceAccount
    THEN [ret |-> FALSE, app |-> firebaseApp, client |-> firestoreClient,
          log |-> << LogVerbose("FIREBASE_SERVICE_ACCOUNT not configured - Firestore disabled") >>]
    ELSE CASE o = "ok" ->
                [ret |-> TRUE, app |-> TRUE, client |-> TRUE,
                 log |-> << LogVerbose("Firebase Admin SDK initialized") >>]
           [] o = "init_raises" ->
                [ret |-> FALSE, app |-> firebaseApp, client |-> firestoreClient,
                 log |-> << LogError("ERROR: Failed to initialize Firebase Admin", "exception") >>]
           [] OTHER ->
                [ret |-> FALSE, app |-> TRUE, client |-> firestoreClient,
                 log |-> << LogError("ERROR: Failed to initialize Firebase Admin", "exception") >>]

\* Variant: set(..., merge=True) with the list joined to the stored one.
WrittenDocMerging(key_hex, allowed_emails) ==
    [exists |-> TRUE, encryptionKey |-> key_hex,
     authorizedEmails |-> firestoreDoc.authorizedEmails \o allowed_emails]

\* The document doc_ref.set(...) writes: a full replace.
WrittenDoc(key_hex, allowed_emails) ==
    [exists |-> TRUE, encryptionKey |-> key_hex, authorizedEmails |-> allowed_emails]

\* _store_key_in_firestore with outcome o of the initialisation and w of the
\* document write.
store_key_in_firestore(key_hex, allowed_emails, o, w) ==
    LET a == init_firebase_admin(o) IN
    IF ~a.ret
    THEN [ret |-> FALSE, app |-> a.app, client |-> a.client, doc |-> firestoreDoc,
          log |-> a.log]
    ELSE IF ~a.client \/ w = "raises"
    THEN [ret |-> FALSE, app |-> a.app, client |-> a.client, doc |-> firestoreDoc,
          log |-> a.log \o << LogError("ERROR: Failed to store key in Firestore", "exception") >>]
    ELSE [ret |-> TRUE, app |-> a.app, client |-> a.client,
          doc |-> WrittenDoc(key_hex, allowed_emails),
          log |-> a.log \o << LogVerbose("Encryption key stored in Firestore") >>]

\* Variant: the result of the key-store write is not looked at.
StoreKeyNextIgnoringFailure(ret) == "inject"

\* if not _store_key_in_firestore(...): return False
StoreKeyNext(ret) == IF ret THEN "inject" ELSE "done"

\* prepare_deployment: the key-store write, required before anything is
\* written to index.html
StoreKey(p) ==
    /\ pc[p] = "store_key"
    /\ \E o \in InitOutcomes, w \in SetOutcomes :
         LET r == store_key_in_firestore(loc[p].key_hex, loc[p].allowed_emails, o, w) IN
         /\ firebaseApp' = r.app
         /\ firestoreClient' = r.client
         /\ firestoreDoc' = r.doc
         /\ IF ~r.ret
            THEN Finish(p, StoreKeyNext(r.ret),
                   [Failed(hist[p], "key_store") EXCEPT !.storeResult = "false"],
                   r.log \o << LogError("ERROR: Failed to store key in Firestore. Refusing to deploy without Firestore-backed key.",
                                        "Check FIREBASE_SERVICE_ACCOUNT / Firestore setup / permissions.") >>)
            ELSE Finish(p, StoreKeyNext(r.ret),
                   [hist[p] EXCEPT !.step = "key_store", !.storeResult = "true"], r.log)
    /\ UNCHANGED << fsVars, cfgVars, unitVars, viewerVars, hosted, runs, loc >>

-----------------------------------------------------------------------------
(* Template injection *)

\* Variant: the key is embedded in the page next to the payload.
InjectedContentWithKey(content, title, encrypted_hex) ==
    Replace(Replace(content, TITLE_PLACEHOLDER, title),
            DASHBOARD_DATA_PLACEHOLDER, encrypted_hex) \o << KeyHex(encrypted_hex.n) >>

\* Variant: the placeholders of the canonical template are filled, whatever
\* the file holds.
InjectedIntoTemplate(content, title, encrypted_hex) ==
    Replace(Replace(Template, TITLE_PLACEHOLDER, title),
            DASHBOARD_DATA_PLACEHOLDER, encrypted_hex)

\* content.replace(title placeholder, title).replace(data placeholder, payload)
InjectedContent(content, title, encrypted_hex) ==
    Replace(Replace(content, TITLE_PLACEHOLDER, title),
            DASHBOARD_DATA_PLACEHOLDER, encrypted_hex)

WriteOutcomes == {"ok", "open_raises", "write_raises"}

\* prepare_deployment: read index.html, substitute, write it back
Inject(p) ==
    /\ pc[p] = "inject"
    /\ LET content == InjectedContent(indexHtml, Title, loc[p].encrypted_hex)
           err == << LogError("ERROR: Failed to prepare index.html", "exception") >>
       IN
       \E o \in WriteOutcomes \cup {"read_raises"} :
         CASE o = "ok" ->
                /\ indexHtml' = content
                /\ Finish(p, "remove_stray",
                      [hist[p] EXCEPT !.step = "inject", !.indexWrites = @ + 1,
                                      !.injectRead = indexHtml,
                                      !.injectWrote = content], <<>>)
           [] o \in {"read_raises", "open_raises"} ->
                /\ indexHtml' = indexHtml
                /\ Finish(p, "done", Failed(hist[p], "inject"), err)
           [] OTHER ->
                /\ indexHtml' \in Prefixes(content)
                /\ Finish(p, "done",
                      [Failed(hist[p], "inject") EXCEPT !.indexWrites = @ + 1], err)
    /\ UNCHANGED << dirExists, indexExists, dashboardHtml, cfgVars, unitVars, viewerVars, adminVars,
                    firestoreDoc, hosted, runs, loc >>

\* Variant: the stray copy is not removed.
StrayKept(o) == TRUE

\* Whether dashboard.html is still there after os.remove ended with o.
StrayAfterRemove(o) == (o = "raises")

\* prepare_deployment: remove firebase_public/dashboard.html, errors ignored
RemoveStray(p) ==
    /\ pc[p] = "remove_stray"
    /\ IF dashboardHtml
       THEN \E o \in {"ok", "raises"} :
              /\ dashboardHtml' = StrayAfterRemove(o)
              /\ Finish(p, "deploy",
                    [hist[p] EXCEPT !.step = "prepared", !.removeRaised = (o = "raises")],
                    <<>>)
       ELSE /\ dashboardHtml' = dashboardHtml
            /\ Finish(p, "deploy", [hist[p] EXCEPT !.step = "prepared"], <<>>)
    /\ UNCHANGED << dirExists, indexExists, indexHtml, cfgVars, unitVars, viewerVars, adminVars,
                    firestoreDoc, hosted, runs, loc >>

-----------------------------------------------------------------------------
(* deploy: the hosting command and its output *)

Marker == "Hosting URL:"
\* Characters of a line of output.  A longer string stands for a run of
\* characters none of which is ESC, "[", a digit, ";" or leading "m".
ESC == "ESC"
Params == {"0", "1", "2", "3", ";"}

\* Sample outputs of the hosting command: sequences of lines of characters.
StdoutSamples ==
    { << <<"Deploy complete!">> >>,
      << <<ESC, "[", "3", "2", "m", "Hosting URL:", " ", "https://proj.web.app",
           ESC, "[", "0", "m">> >>,
      << <<"Deploy complete!">>,
         <<"Hosting URL:", " ", "[", "1", "m", "https://proj.web.app",
           "[", "0", "m", " ">>,
         <<"Hosting URL:", " ", "https://other.web.app">> >>,
      << <<"Hosting URL:", " ", ESC, "[", "0", "m">> >> }

StderrSamples == {"", "Error: deploy failed"}

HasMarker(line) == \E i \in 1..Len(line) : line[i] = Marker

\* line.split("Hosting URL:")[-1]
AfterLastMarker(line) ==
    LET last == CHOOSE i \in 1..Len(line) :
                  /\ line[i] = Marker
                  /\ \A j \in (i + 1)..Len(line) : line[j] # Marker
    IN SubSeq(line, last + 1, Len(line))

\* [0-9;]* from position i: the first position past the run of parameters.
RECURSIVE ParamsEnd(_, _)
ParamsEnd(s, i) ==
    IF i <= Len(s) /\ s[i] \in Params THEN ParamsEnd(s, i + 1) ELSE i

\* \[[0-9;]*m at position i: the length of the match, 0 when there is none.
BracketMatch(s, i) ==
    IF i <= Len(s) /\ s[i] = "["
    THEN LET k == ParamsEnd(s, i + 1)
         IN IF k <= Len(s) /\ s[k] = "m" THEN k - i + 1 ELSE 0
    ELSE 0

\* Variant: only \x1b\[[0-9;]*m, the sequences that keep their ESC byte.
AnsiMatchEscOnly(s, i) ==
    IF s[i] = ESC /\ BracketMatch(s, i + 1) > 0 THEN 1 + BracketMatch(s, i + 1)
    ELSE 0

\* The pattern \x1b\[[0-9;]*m|\[[0-9;]*m at position i: the length of the
\* match, 0 when there is none.
AnsiMatch(s, i) ==
    IF s[i] = ESC /\ BracketMatch(s, i + 1) > 0 THEN 1 + BracketMatch(s, i + 1)
    ELSE BracketMatch(s, i)

\* re.sub from position i: one scan from left to right, each match dropped
\* and the scan resumed after it.
RECURSIVE SubAnsi(_, _)
SubAnsi(s, i) ==
    IF i > Len(s) THEN <<>>
    ELSE IF AnsiMatch(s, i) > 0 THEN SubAnsi(s, i + AnsiMatch(s, i))
    ELSE << s[i] >> \o SubAnsi(s, i + 1)

\* ansi_escape.sub('', url)
StripAnsi(s) == SubAnsi(s, 1)

\* The loop over result.stdout.split("\n"): the URL of the first line holding
\* the marker, None when no line holds it.
ExtractUrl(stdout) ==
    IF \E i \in 1..Len(stdout) : HasMarker(stdout[i])
    THEN LET first == CHOOSE i \in 1..Len(stdout) :
                        /\ HasMarker(stdout[i])
                        /\ \A j \in 1..(i - 1) : ~HasMarker(stdout[j])
         IN Some(Strip(StripAnsi(Strip(AfterLastMarker(stdout[first])))))
    ELSE None

\* .firebaserc: absent, unreadable, not JSON, JSON without projects.default,
\* or naming a default project.
FirebasercSamples == {"missing", "unreadable", "invalid_json", "no_default", "proj"}

\* The ways .firebaserc yields no project: open() raises (no file, no
\* permission), json.load raises, .get raises on a value that is not an
\* object, a key is absent, or projects.default is null or empty.
FirebasercFailures ==
    {"missing", "unreadable", "invalid_json", "not_object", "no_projects",
     "no_default", "empty_default"}

\* Variant: the hosting URL on the older firebaseapp.com domain.
UrlFromFirebasercOldDomain(f) ==
    IF f \in FirebasercFailures THEN None
    ELSE Some(<< "https://", f, ".firebaseapp.com" >>)

\* Variant: without the check "if project_id", an absent projects.default is
\* formatted into the URL.
UrlFromFirebasercUnchecked(f) ==
    IF f \in FirebasercFailures \ {"no_default", "empty_default"} THEN None
    ELSE Some(<< "https://", f, ".web.app" >>)

\* The try block reading .firebaserc.
UrlFromFirebaserc(f) ==
    IF f \in FirebasercFailures THEN None
    ELSE Some(<< "https://", f, ".web.app" >>)

DirectOutcomes == {"not_found", "timeout", "exception", "exit0", "exit_nonzero"}
FallbackOutcomes == {"timeout", "exception", "exit0", "exit_nonzero"}

\* The CompletedProcess of a hosting command that ran to its end.
Completed(o, out, err) ==
    [done |-> TRUE, returncode |-> IF o = "exit0" THEN 0 ELSE 1,
     stdout |-> out, stderr |-> err]

\* The hosting command publishes firebase_public when it exits 0.
Published(o) ==
    IF o = "exit0"
    THEN [published |-> TRUE, index |-> indexHtml, plain |-> dashboardHtml]
    ELSE hosted

\* Variant: a timeout of the direct spawn is retried through the shell too.
DirectNextRetrying(o) ==
    CASE o \in {"not_found", "timeout"} -> "deploy_fallback"
      [] o = "exception" -> "restore"
      [] OTHER -> "deploy_result"

\* What deploy() does on the direct spawn ending with o.
DirectNext(o) ==
    CASE o = "not_found" -> "deploy_fallback"
      [] o \in {"timeout", "exception"} -> "restore"
      [] OTHER -> "deploy_result"

DirectLog(o) ==
    CASE o = "timeout" -> << LogInfo("ERROR: Firebase deploy timed out") >>
      [] o = "exception" -> << LogInfo("ERROR: Firebase deploy failed") >>
      [] OTHER -> <<>>

\* deploy: strategy 1, subprocess.run(cmd_parts, timeout=120)
DeployDirect(p) ==
    /\ pc[p] = "deploy"
    /\ \E o \in DirectOutcomes, out \in StdoutSamples, err \in StderrSamples :
         /\ loc' = [loc EXCEPT ![p].result =
                      IF o \in {"exit0", "exit_nonzero"} THEN Completed(o, out, err)
                      ELSE NoResult,
                                ![p].url = None]
         /\ hosted' = Published(o)
         /\ Finish(p, DirectNext(o),
               [hist[p] EXCEPT !.step = "deploy", !.deployCalls = @ + 1,
                               !.directCalls = @ + 1, !.direct = o,
                               !.strayAtInvoke = dashboardHtml,
                               !.deployedIndex = indexHtml,
                               !.report = @ \o DirectLog(o)],
               DirectLog(o))
    /\ UNCHANGED << fsVars, cfgVars, unitVars, viewerVars, adminVars, firestoreDoc, runs >>

\* What deploy() does on the shell invocation ending with o.
FallbackNext(o) == IF o \in {"timeout", "exception"} THEN "restore" ELSE "deploy_result"

FallbackLog(o) ==
    IF o \in {"timeout", "exception"}
    THEN << LogInfo("ERROR: Firebase deploy failed") >>
    ELSE <<>>

\* deploy: strategy 2, the same command after sourcing nvm.sh, shell=True
DeployFallback(p) ==
    /\ pc[p] = "deploy_fallback"
    /\ \E o \in FallbackOutcomes, out \in StdoutSamples, err \in StderrSamples :
         /\ loc' = [loc EXCEPT ![p].result =
                      IF o \in {"exit0", "exit_nonzero"} THEN Completed(o, out, err)
                      ELSE NoResult]
         /\ hosted' = Published(o)
         /\ Finish(p, FallbackNext(o),
               [hist[p] EXCEPT !.fallbackCalls = @ + 1, !.fallback = o,
                               !.strayAtInvoke = dashboardHtml,
                               !.deployedIndex = indexHtml,
                               !.report = @ \o FallbackLog(o)],
               FallbackLog(o))
    /\ UNCHANGED << fsVars, cfgVars, unitVars, viewerVars, adminVars, firestoreDoc, runs >>

\* Variant: the return code is not checked before the output is searched.
DeployOutcomeIgnoringReturnCode(r, f) ==
    IF ~r.done
    THEN [url |-> None, parsed |-> FALSE, rc |-> FALSE,
          log |-> << LogInfo("ERROR: Firebase deploy - no result") >>]
    ELSE IF ExtractUrl(r.stdout).some
    THEN [url |-> ExtractUrl(r.stdout), parsed |-> TRUE, rc |-> FALSE, log |-> <<>>]
    ELSE [url |-> UrlFromFirebaserc(f), parsed |-> TRUE, rc |-> TRUE, log |-> <<>>]

\* deploy after the command ended: the value returned, whether stdout was
\* searched and .firebaserc read, and what was logged, for result r and
\* .firebaserc f.
DeployOutcome(r, f) ==
    IF ~r.done
    THEN [url |-> None, parsed |-> FALSE, rc |-> FALSE,
          log |-> << LogInfo("ERROR: Firebase deploy - no result") >>]
    ELSE IF r.returncode # 0
    THEN [url |-> None, parsed |-> FALSE, rc |-> FALSE,
          log |-> << LogError("ERROR: Firebase deploy failed", r.stderr) >>]
    ELSE IF ExtractUrl(r.stdout).some
    THEN [url |-> ExtractUrl(r.stdout), parsed |-> TRUE, rc |-> FALSE, log |-> <<>>]
    ELSE [url |-> UrlFromFirebaserc(f), parsed |-> TRUE, rc |-> TRUE, log |-> <<>>]

\* deploy: return code, URL extraction, .firebaserc
DeployResult(p) ==
    /\ pc[p] = "deploy_result"
    /\ \E f \in FirebasercSamples :
         LET d == DeployOutcome(loc[p].result, f) IN
         /\ loc' = [loc EXCEPT ![p].url = d.url]
         /\ Finish(p, "restore",
               [hist[p] EXCEPT !.stdoutParsed = d.parsed, !.rcRead = d.rc,
                               !.firebaserc = IF d.rc THEN f ELSE "none",
                               !.report = @ \o d.log],
               d.log)
    /\ UNCHANGED << fsVars, cfgVars, unitVars, viewerVars, adminVars, firestoreDoc, hosted, runs >>

-----------------------------------------------------------------------------
(* restore_index_html and the return of deploy_dashboard *)

\* Variant: restore by undoing the substitution in what the file holds.
RestoredByUnsubstituting(content) ==
    [i \in 1..Len(content) |->
        IF content[i] = Title THEN TITLE_PLACEHOLDER
        ELSE IF IsCipher(content[i]) THEN DASHBOARD_DATA_PLACEHOLDER
        ELSE content[i]]

\* What restore_index_html writes over `content`.
RestoredContent(content) == Template

\* restore_index_html: rewrite index.html, errors ignored
Restore(p) ==
    /\ pc[p] = "restore"
    /\ \E o \in WriteOutcomes :
         /\ CASE o = "ok" -> indexHtml' = RestoredContent(indexHtml)
              [] o = "open_raises" -> indexHtml' = indexHtml
              [] OTHER -> indexHtml' \in Prefixes(RestoredContent(indexHtml))
         /\ Finish(p, "return",
               [hist[p] EXCEPT !.step = "restore", !.restoreCalls = @ + 1,
                               !.restore = o, !.beforeRestore = indexHtml,
                               !.indexWrites = IF o = "open_raises" THEN @ ELSE @ + 1],
               <<>>)
    /\ UNCHANGED << dirExists, indexExists, dashboardHtml, cfgVars, unitVars, viewerVars, adminVars,
                    firestoreDoc, hosted, runs, loc >>

\* deploy_dashboard: return url
Return(p) ==
    /\ pc[p] = "return"
    /\ Finish(p, "done", [hist[p] EXCEPT !.ret = loc[p].url], <<>>)
    /\ UNCHANGED << fsVars, cfgVars, unitVars, viewerVars, adminVars, firestoreDoc, hosted, runs, loc >>

-----------------------------------------------------------------------------
Step(p) ==
    \/ Start(p)
    \/ CheckPreconditions(p)
    \/ Encrypt(p)
    \/ StoreKey(p)
    \/ Inject(p)
    \/ RemoveStray(p)
    \/ DeployDirect(p)
    \/ DeployFallback(p)
    \/ DeployResult(p)
    \/ Restore(p)
    \/ Return(p)

Next == \E p \in MainProcs : Step(p)

Spec == Init /\ [][Next]_vars

-----------------------------------------------------------------------------
(* Properties of the publish pipeline *)

Returned(p) == pc[p] = "done"
NoRunInProgress == \A p \in Procs : pc[p] \in {"idle", "done"}
AtHostingInvocation(p) == pc[p] \in {"deploy", "deploy_fallback"}
\* The hosting command of this run ended with exit status 0.
HostingSucceeded(p) == loc[p].result.done /\ loc[p].result.returncode = 0

\* C1: in a run whose key-store write returned False, index.html is never
\* written (it is as it was before the run), neither strategy of deploy() is
\* invoked, the hosting site is untouched, and deploy_dashboard returns None.
C1_FailClosedOnKeyStoreFailure ==
    \A p \in Procs :
        hist[p].storeResult = "false" =>
            /\ hist[p].indexWrites = 0
            /\ indexExists = hist[p].preExists
            /\ indexHtml = hist[p].preIndex
            /\ hist[p].deployCalls = 0
            /\ hist[p].directCalls = 0 /\ hist[p].fallbackCalls = 0
            /\ hosted = hist[p].preSite
            /\ hist[p].restoreCalls = 0
            /\ Returned(p) /\ hist[p].ret = None

\* A run whose key-store write failed has returned, over a template that an
\* earlier run had left without its canonical content.
C1_Witness ==
    /\ hist["A"].storeResult = "false"
    /\ Returned("A")
    /\ hist["A"].preExists /\ hist["A"].preIndex # Template

\* C2: whenever no run is in progress, index.html holds both placeholders and
\* no ciphertext.
C2_TemplateInvariant ==
    (NoRunInProgress /\ indexExists) =>
        /\ HasPlaceholders(indexHtml)
        /\ ~ContainsCipher(indexHtml)

\* C3: when deploy_dashboard has returned, restore_index_html was executed in
\* that run.
C3_RestoreUnconditional ==
    \A p \in Procs : Returned(p) => hist[p].restoreCalls >= 1

\* C4: a run that has returned either had every publish step succeed (the
\* hosting command exited 0), or returned None with index.html pristine and
\* the hosting site as it was; a URL is returned only in the first case.
C4_NoPartialPublish ==
    \A p \in Procs :
        Returned(p) =>
            /\ \/ HostingSucceeded(p)
               \/ /\ hist[p].ret = None
                  /\ indexExists => indexHtml = Template
                  /\ hosted = hist[p].preSite
            /\ hist[p].ret.some => HostingSucceeded(p)

C6_KeyNeverPublished ==
    /\ ~ContainsKey(indexHtml)
    /\ ~ContainsKey(hosted.index)
    /\ \A p \in Procs : ~ContainsKey(hist[p].deployedIndex)

\* A run has stored its key, injected its payload and published the page.
C6_Witness ==
    /\ pc["A"] = "restore"
    /\ firestoreDoc.exists /\ firestoreDoc.encryptionKey = loc["A"].key_hex
    /\ Contains(indexHtml, loc["A"].encrypted_hex)
    /\ hosted.published /\ hosted.index = indexHtml

C8_TwoTierFallback ==
    \A p \in Procs :
        /\ hist[p].directCalls <= 1
        /\ hist[p].fallbackCalls <= 1
        /\ hist[p].fallbackCalls <= hist[p].directCalls
        /\ (hist[p].fallbackCalls = 1 \/ pc[p] = "deploy_fallback") =>
               hist[p].direct = "not_found"
        /\ (hist[p].direct = "not_found" /\ pc[p] # "deploy_fallback") =>
               hist[p].fallbackCalls = 1
        /\ hist[p].direct \in {"timeout", "exception", "exit0", "exit_nonzero"} =>
               /\ hist[p].fallbackCalls = 0
               /\ hist[p].fallback = "none"

\* The direct spawn did not find the binary and the shell invocation ran.
C8_Witness ==
    /\ hist["A"].direct = "not_found"
    /\ hist["A"].directCalls = 1
    /\ hist["A"].fallbackCalls = 1
    /\ hist["A"].fallback = "exit0"

RECURSIVE PrintedAll(_)
\* What a sequence of logging calls prints.
PrintedAll(entries) ==
    IF entries = <<>> THEN <<>>
    ELSE Printed(Head(entries)) \o PrintedAll(Tail(entries))

\* What deploy() printed in this run.
DeployReport(p) == PrintedAll(hist[p].report)
\* What deploy() prints when an invocation fails with another exception.
GenericFailureReports ==
    { PrintedAll(DirectLog("exception")), PrintedAll(FallbackLog("exception")) }
\* What deploy() prints when the command exits with a non-zero status.
NonZeroExitReports ==
    { PrintedAll(DeployOutcome(Completed("exit_nonzero", out, err), f).log) :
        out \in StdoutSamples, err \in StderrSamples, f \in FirebasercSamples }
TimedOut(p) == hist[p].direct = "timeout" \/ hist[p].fallback = "timeout"

\* C9: when either invocation timed out, what deploy() reports differs from
\* what it reports for a non-zero exit and for a generic invocation failure.
C9_TimeoutDistinct ==
    \A p \in Procs :
        TimedOut(p) =>
            /\ DeployReport(p) \notin GenericFailureReports
            /\ DeployReport(p) \notin NonZeroExitReports

NonZeroExit(p) == loc[p].result.done /\ loc[p].result.returncode # 0

\* C10: after the hosting command ended with a non-zero return code, deploy()
\* returns None, stdout was not searched, .firebaserc was not read, and the
\* one logging call is log_error with the command's stderr.
C10_NonZeroExitHardFailure ==
    \A p \in Procs :
        (NonZeroExit(p) /\ pc[p] \in {"restore", "return", "done"}) =>
            /\ loc[p].url = None
            /\ ~hist[p].stdoutParsed
            /\ ~hist[p].rcRead
            /\ hist[p].report =
                 << LogError("ERROR: Firebase deploy failed", loc[p].result.stderr) >>
            /\ Returned(p) => hist[p].ret = None

\* The shell invocation exited non-zero with a Hosting URL line on stdout and
\* a diagnostic on stderr, and deploy_dashboard has returned.
C10_Witness ==
    /\ NonZeroExit("A") /\ Returned("A")
    /\ hist["A"].fallbackCalls = 1
    /\ ExtractUrl(loc["A"].result.stdout).some
    /\ loc["A"].result.stderr # ""

-----------------------------------------------------------------------------
(* deploy() called on its own, the hosting command having exited 0 *)

\* Longest text explored after the marker.
MaxTextLen == 4

\* Characters of that text; "u" is any character of a URL.
Chars == {ESC, "[", "0", "m", " ", "u"}

RECURSIVE Texts(_)
Texts(n) ==
    IF n = 0 THEN { <<>> }
    ELSE LET shorter == Texts(n - 1)
         IN shorter \cup
            { Append(s, c) : s \in { t \in shorter : Len(t) = n - 1 }, c \in Chars }

Shapes == {"only", "after_noise", "first_of_two", "marker_twice", "no_marker"}

\* Outputs of the hosting command around one text.
StdoutOf(shape, text) ==
    CASE shape = "only" -> << << Marker >> \o text >>
      [] shape = "after_noise" ->
           << <<"Deploy complete!">>, << ESC, "[", "0", "m", Marker >> \o text >>
      [] shape = "first_of_two" ->
           << << Marker >> \o text, << Marker, " ", "https://other.web.app" >> >>
      [] shape = "marker_twice" ->
           << << Marker, "https://other.web.app", Marker >> \o text >>
      [] OTHER -> << SelectSeq(text, LAMBDA c : c # Marker) >>

\* The pipeline at rest: no deploy_dashboard call yet.
AtRest ==
    /\ dirExists = TRUE
    /\ indexExists = TRUE
    /\ indexHtml = Template
    /\ dashboardHtml = FALSE
    /\ recipient = [set |-> FALSE, segs |-> << <<>> >>]
    /\ verbose = FALSE
    /\ firebaseApp = FALSE
    /\ firestoreClient = FALSE
    /\ hosted = NoSite
    /\ runs = 0
    /\ pc = [p \in Procs |-> "idle"]
    /\ loc = [p \in Procs |-> InitLoc]
    /\ hist = [p \in Procs |-> InitHist]
    /\ log = [p \in Procs |-> <<>>]
    /\ ViewerAtRest

\* What .firebaserc can be when deploy() is called on its own.
FirebasercInputs == FirebasercFailures \cup {"proj", "other-proj"}

\* The hosting command has exited 0: with the marker in its output, or
\* without it beside some .firebaserc.
InitDeploy ==
    /\ AtRest
    /\ serviceAccount = TRUE
    /\ firestoreDoc = NoDoc
    /\ call \in { [fn |-> "subprocess.run", stdout |-> StdoutOf(shape, text),
                    firebaserc |-> f, ret |-> NoResult] :
                    shape \in Shapes, text \in Texts(MaxTextLen),
                    f \in FirebasercSamples }
               \cup
               { [fn |-> "subprocess.run", stdout |-> StdoutOf("no_marker", text),
                    firebaserc |-> f, ret |-> NoResult] :
                    text \in Texts(1), f \in FirebasercInputs }

\* deploy() from the return-code check on.
DeployCall ==
    /\ call.fn = "subprocess.run"
    /\ call' = [call EXCEPT !.fn = "deploy",
                            !.ret = DeployOutcome(
                                       Completed("exit0", call.stdout, ""),
                                       call.firebaserc)]
    /\ UNCHANGED << fsVars, cfgVars, adminVars, firestoreDoc, hosted, runs,
                    pc, loc, hist, log,
                    viewerVars >>

SpecDeploy == InitDeploy /\ [][DeployCall]_vars

\* The lines of an output that hold the marker.
MarkerLines(stdout) == { i \in 1..Len(stdout) : HasMarker(stdout[i]) }

\* The text after the last marker of the first line that holds one.
TextAfterMarker(stdout) ==
    LET first == CHOOSE i \in MarkerLines(stdout) :
                   \A j \in MarkerLines(stdout) : i <= j
    IN AfterLastMarker(stdout[first])

Trimmed(s) == s = <<>> \/ (s[1] # Space /\ s[Len(s)] # Space)

\* s holds a colour sequence: "[", parameters, "m" (after an ESC or not).
HasColourSequence(s) ==
    \E i \in 1..Len(s), j \in 1..Len(s) :
       /\ i < j
       /\ s[i] = "["
       /\ s[j] = "m"
       /\ \A k \in (i + 1)..(j - 1) : s[k] \in Params

\* Every "[" of s opens a colour sequence.
EveryBracketOpens(s) ==
    \A i \in 1..Len(s) : s[i] = "[" => HasColourSequence(SubSeq(s, i, Len(s)))
                                        /\ BracketMatch(s, i) > 0

DeployCalled == call.fn = "deploy" /\ MarkerLines(call.stdout) # {}

\* C11 (as stated): when the command exits 0 and a line of its output holds
\* the marker, deploy() returns the trimmed text after the marker of the first
\* such line, .firebaserc is not read, and the returned string holds no colour
\* sequence at all.
C11_UrlExtraction ==
    DeployCalled =>
       /\ call.ret.url.some
       /\ ~call.ret.rc
       /\ Trimmed(call.ret.url.text)
       /\ ~HasColourSequence(call.ret.url.text)

\* C11 (amended): when the command exits 0 and a line of its output holds the
\* marker, deploy() returns the text after the last marker of the first such
\* line, trimmed, without reading .firebaserc; a text without "[" is returned
\* as it is, and when every "[" of the text opens a colour sequence the
\* returned string holds neither "[" nor a colour sequence.
C11_UrlExtractionSinglePass ==
    DeployCalled =>
       LET text == TextAfterMarker(call.stdout)
           url == call.ret.url
       IN /\ url.some
          /\ call.ret.parsed
          /\ ~call.ret.rc
          /\ Trimmed(url.text)
          /\ (\A i \in 1..Len(text) : text[i] # "[") => url.text = Strip(text)
          /\ EveryBracketOpens(text) =>
                /\ \A i \in 1..Len(url.text) : url.text[i] # "["
                /\ ~HasColourSequence(url.text)

\* A padded URL between an ESC-led and a bare colour sequence comes back bare,
\* from the first of two lines that hold the marker.
C11_Witness ==
    /\ DeployCalled
    /\ Len(call.stdout) = 2
    /\ HasMarker(call.stdout[2])
    /\ TextAfterMarker(call.stdout) = << ESC, "[", "m", "u" >>
    /\ call.ret.url = Some(<< "u" >>)
    /\ call.firebaserc = "proj"

\* deploy() found no marker in the output of a command that exited 0.
DeployFellBack == call.fn = "deploy" /\ MarkerLines(call.stdout) = {}

\* C12: when the command exits 0, no line of its output holds the marker and
\* .firebaserc is readable JSON whose projects.default is a non-empty string
\* p, deploy() returns exactly https://p.web.app.
C12_FallbackUrl ==
    (DeployFellBack /\ call.firebaserc \notin FirebasercFailures) =>
       /\ call.ret.rc
       /\ call.ret.url = Some(<< "https://", call.firebaserc, ".web.app" >>)

C12_Witness ==
    /\ DeployFellBack
    /\ call.firebaserc = "other-proj"
    /\ call.stdout = << << "u" >> >>
    /\ call.ret.url = Some(<< "https://", "other-proj", ".web.app" >>)

\* The command of call p exited 0, deploy() found no marker in its output and
\* .firebaserc yielded no project.
UrlUnavailable(p) ==
    /\ HostingSucceeded(p)
    /\ hist[p].stdoutParsed
    /\ MarkerLines(loc[p].result.stdout) = {}
    /\ hist[p].firebaserc \in FirebasercFailures

\* C13: when the command exits 0, no line of its output holds the marker and
\* .firebaserc is missing, unreadable, not valid JSON or without a
\* projects.default value, deploy() returns None without raising, and
\* deploy_dashboard still runs restore_index_html and returns None.
C13_UrlUnavailable ==
    \A p \in Procs :
       UrlUnavailable(p) =>
          /\ loc[p].url = None
          /\ pc[p] \in {"restore", "return", "done"}
          /\ pc[p] \in {"return", "done"} => hist[p].restoreCalls = 1
          /\ Returned(p) => hist[p].ret = None /\ hist[p].failed = "none"

C13_Witness ==
    /\ Returned("A")
    /\ UrlUnavailable("A")
    /\ hist["A"].firebaserc = "unreadable"
    /\ hist["A"].restoreCalls = 1
    /\ hist["A"].ret = None
    /\ hosted.published

-----------------------------------------------------------------------------
(* _store_key_in_firestore called on its own, any number of times *)

\* Number of distinct keys passed.
MaxKeys == 3

\* Identity lists passed.
EmailLists == { <<>>, << <<"a">> >>, << <<"a">>, <<"b">> >> }

NoArgs == [some |-> FALSE, key_hex |-> KeyHex(0), allowed_emails |-> <<>>]

InitKeyStore ==
    /\ AtRest
    /\ serviceAccount \in BOOLEAN
    /\ firestoreDoc = NoDoc
    /\ call = [fn |-> "none", last |-> NoArgs]

\* One call; `last` keeps the arguments of the latest call that returned True.
StoreCall ==
    /\ \E k \in 1..MaxKeys, e \in EmailLists, o \in InitOutcomes, w \in SetOutcomes :
         LET r == store_key_in_firestore(KeyHex(k), e, o, w)
             args == [some |-> TRUE, key_hex |-> KeyHex(k), allowed_emails |-> e]
         IN /\ firebaseApp' = r.app
            /\ firestoreClient' = r.client
            /\ firestoreDoc' = r.doc
            /\ call' = [fn |-> "_store_key_in_firestore", args |-> args,
                        ret |-> r.ret, before |-> firestoreDoc,
                        last |-> IF r.ret THEN args ELSE call.last]
    /\ UNCHANGED << fsVars, cfgVars, hosted, runs, pc, loc, hist, log,
                    viewerVars >>

SpecKeyStore == InitKeyStore /\ [][StoreCall]_vars

\* C14: after any sequence of _store_key_in_firestore calls the document
\* holds exactly the encryptionKey and authorizedEmails of the latest call
\* that succeeded and nothing of earlier calls; a call that fails leaves the
\* document as the latest successful call left it.
C14_FullReplace ==
    /\ firestoreDoc =
          IF call.last.some
          THEN [exists |-> TRUE, encryptionKey |-> call.last.key_hex,
                authorizedEmails |-> call.last.allowed_emails]
          ELSE NoDoc
    /\ (call.fn # "none" /\ ~call.ret) => firestoreDoc = call.before

\* A successful call with another key and a shorter list follows a
\* successful one.
C14_Witness ==
    /\ call.fn # "none"
    /\ call.ret
    /\ call.before.exists
    /\ call.before.encryptionKey # call.args.key_hex
    /\ Len(call.before.authorizedEmails) > Len(call.args.allowed_emails)
    /\ firestoreDoc.authorizedEmails = call.args.allowed_emails

-----------------------------------------------------------------------------
(* prepare_deployment from get_allowed_emails to the key-store write *)

\* Most comma-separated segments of RECIPIENT_EMAIL, and their longest.
MaxSegs == 2
MaxSegLen == 2

SegChars == {" ", "a", "A"}

RECURSIVE SegTexts(_)
SegTexts(n) ==
    IF n = 0 THEN { <<>> }
    ELSE LET shorter == SegTexts(n - 1)
         IN shorter \cup
            { Append(s, c) : s \in { t \in shorter : Len(t) = n - 1 }, c \in SegChars }

RECURSIVE SegLists(_)
SegLists(n) ==
    IF n = 1 THEN { << s >> : s \in SegTexts(MaxSegLen) }
    ELSE LET shorter == SegLists(n - 1)
         IN shorter \cup
            { Append(l, s) : l \in { t \in shorter : Len(t) = n - 1 },
                             s \in SegTexts(MaxSegLen) }

\* RECIPIENT_EMAIL: unset, or any string of up to MaxSegs segments.
RecipientInputs ==
    { [set |-> FALSE, segs |-> << <<>> >>] }
    \cup { [set |-> TRUE, segs |-> l] : l \in SegLists(MaxSegs) }

InitEmails ==
    /\ dirExists = TRUE
    /\ indexExists = TRUE
    /\ indexHtml = Template
    /\ dashboardHtml = FALSE
    /\ recipient \in RecipientInputs
    /\ serviceAccount = TRUE
    /\ verbose = FALSE
    /\ firebaseApp = FALSE
    /\ firestoreClient = FALSE
    /\ firestoreDoc = NoDoc
    /\ hosted = NoSite
    /\ runs = 0
    /\ pc = [p \in Procs |-> "idle"]
    /\ loc = [p \in Procs |-> InitLoc]
    /\ hist = [p \in Procs |-> InitHist]
    /\ log = [p \in Procs |-> <<>>]
    /\ call = NoCall
    /\ ViewerAtRest

\* allowed_emails = get_allowed_emails(), then
\* _store_key_in_firestore(key_hex, allowed_emails)
StoreEmails ==
    /\ call = NoCall
    /\ \E o \in InitOutcomes, w \in SetOutcomes :
         LET e == get_allowed_emails(recipient)
             r == store_key_in_firestore(KeyHex(1), e, o, w)
         IN /\ firebaseApp' = r.app
            /\ firestoreClient' = r.client
            /\ firestoreDoc' = r.doc
            /\ call' = [fn |-> "_store_key_in_firestore", allowed_emails |-> e,
                        ret |-> r.ret]
    /\ UNCHANGED << fsVars, cfgVars, hosted, runs, pc, loc, hist, log,
                    viewerVars >>

SpecEmails == InitEmails /\ [][StoreEmails]_vars

\* An identity as the key store is meant to hold it.
Normalized(e) ==
    /\ e # <<>>
    /\ e[1] # Space
    /\ e[Len(e)] # Space
    /\ \A i \in 1..Len(e) : e[i] \notin {"A", "B"}

\* C15: every entry of the authorizedEmails list that prepare_deployment
\* passes to the key store is trimmed, lower-cased and non-empty, whatever the
\* comma-separated RECIPIENT_EMAIL (empty segments, mixed case, padding); an
\* unset or empty RECIPIENT_EMAIL gives the empty list.
C15_IdentityNormalization ==
    call.fn = "_store_key_in_firestore" =>
       /\ \A i \in 1..Len(call.allowed_emails) : Normalized(call.allowed_emails[i])
       /\ Falsy(recipient) => call.allowed_emails = <<>>
       /\ call.ret =>
             /\ firestoreDoc.authorizedEmails = call.allowed_emails
             /\ \A i \in 1..Len(firestoreDoc.authorizedEmails) :
                   Normalized(firestoreDoc.authorizedEmails[i])

\* A padded upper-case segment beside a blank one is stored as one
\* lower-case identity.
C15_Witness ==
    /\ call.fn = "_store_key_in_firestore"
    /\ call.ret
    /\ recipient.segs = << <<" ", "A">>, <<" ">> >>
    /\ firestoreDoc.authorizedEmails = << <<"a">> >>

-----------------------------------------------------------------------------
(* More properties of the publish pipeline *)

\* Call p is past the existence checks of prepare_deployment.
Checked(p) == pc[p] \notin {"idle", "check"}

\* C16: an empty identity list is not fatal: prepare_deployment still performs
\* the key-store write and the injection and returns True whenever those steps
\* succeed, and deploy_dashboard goes on to invoke deploy(); no step's outcome
\* depends on the list being empty.
C16_EmptyIdentityListNotFatal ==
    /\ \A p \in Procs :
          /\ hist[p].failed = "precondition" => (~dirExists \/ ~hist[p].preExists)
          /\ (Checked(p) /\ hist[p].failed # "precondition"
                /\ get_allowed_emails(recipient) = <<>>) =>
                /\ loc[p].allowed_emails = <<>>
                /\ hist[p].storeResult = "true" =>
                      firestoreDoc = [exists |-> TRUE,
                                      encryptionKey |-> loc[p].key_hex,
                                      authorizedEmails |-> <<>>]
                /\ (hist[p].step = "inject" /\ hist[p].failed = "none") =>
                      pc[p] = "remove_stray"
                /\ (hist[p].step = "prepared") => pc[p] = "deploy"
                /\ (Returned(p) /\ hist[p].failed = "none") => hist[p].deployCalls = 1
    /\ \A o \in InitOutcomes, w \in SetOutcomes, e \in EmailLists :
          store_key_in_firestore(KeyHex(1), <<>>, o, w).ret
             = store_key_in_firestore(KeyHex(1), e, o, w).ret

\* With RECIPIENT_EMAIL empty the page is published and its URL returned.
C16_Witness ==
    /\ Returned("A")
    /\ recipient = [set |-> TRUE, segs |-> << <<>> >>]
    /\ firestoreDoc.exists
    /\ firestoreDoc.authorizedEmails = <<>>
    /\ firestoreDoc.encryptionKey = loc["A"].key_hex
    /\ hist["A"].deployCalls = 1
    /\ hist["A"].ret.some
    /\ hosted.published
    /\ ContainsCipher(hosted.index)

\* firebase_public or its index.html was missing when call p started.
TargetMissing(p) == ~dirExists \/ ~hist[p].preExists

\* C17: when firebase_public or firebase_public/index.html does not exist as
\* prepare_deployment starts, it returns False without retrying, without
\* writing the key store and without creating or modifying any file, and
\* deploy() is not invoked.
C17_TargetPrecondition ==
    \A p \in Procs :
       (Checked(p) /\ TargetMissing(p)) =>
          /\ Returned(p)
          /\ hist[p].failed = "precondition"
          /\ hist[p].step = "precondition"
          /\ hist[p].ret = None
          /\ hist[p].storeResult = "none"
          /\ firestoreDoc = hist[p].preDoc
          /\ loc[p].key_hex = KeyHex(0)
          /\ hist[p].indexWrites = 0
          /\ indexExists = hist[p].preExists
          /\ indexHtml = hist[p].preIndex
          /\ dashboardHtml = hist[p].preStray
          /\ hist[p].deployCalls = 0
          /\ hosted = hist[p].preSite

\* index.html is missing beside a stray dashboard.html: the call ends at the
\* check, the stray file untouched.
C17_Witness ==
    /\ Returned("A")
    /\ dirExists
    /\ ~hist["A"].preExists
    /\ hist["A"].preStray
    /\ dashboardHtml
    /\ hist["A"].failed = "precondition"
    /\ log["A"] = << LogInfo("ERROR: firebase_public/index.html not found") >>

-----------------------------------------------------------------------------
(* The published page in a viewer's browser: the script of the template *)

\* Sign-ins explored in one behaviour.
MaxSignIns == 2

\* The most external and the most inline scripts of a report.
MaxExternal == 2
MaxInline == 2

\* The script elements a report can carry.
Reports ==
    { [external |-> n, inline |-> m] : n \in 0..MaxExternal, m \in 0..MaxInline }

\* Google accounts: one the publisher lists, one never listed.
Viewers == { <<"a">>, <<"x">> }

\* A payload whose bytes were altered after encryption.
Tampered(k) == [t |-> "tampered", n |-> k]

\* The text of the element #dashboard-data of a served page.
DashboardData(index) ==
    index[CHOOSE i \in 1..Len(Template) : Template[i] = DASHBOARD_DATA_PLACEHOLDER]

\* encryptedData && !encryptedData.includes('PLACEHOLDER')
Usable(data) == data.t # "ph"

\* Pages the site serves: the payload of key 1, that payload altered, and the
\* page with its placeholders.
PublishedPages ==
    { InjectedContent(Template, Title, CipherHex(1)),
      InjectedContent(Template, Title, Tampered(1)),
      Template }

\* The config/dashboard document: absent, with the key of the payload, with
\* another key, or without a key.
StoredDocs ==
    { NoDoc } \cup { WrittenDoc(KeyHex(k), << <<"a">> >>) : k \in {0, 1, 2} }

InitViewer ==
    /\ dirExists = TRUE
    /\ indexExists = TRUE
    /\ indexHtml = Template
    /\ dashboardHtml = FALSE
    /\ recipient = [set |-> TRUE, segs |-> << <<"a">> >>]
    /\ serviceAccount = TRUE
    /\ verbose = FALSE
    /\ firebaseApp = FALSE
    /\ firestoreClient = FALSE
    /\ firestoreDoc \in StoredDocs
    /\ hosted \in { [published |-> TRUE, index |-> page, plain |-> FALSE] :
                      page \in PublishedPages }
    /\ runs = 0
    /\ pc = [p \in Procs |-> "idle"]
    /\ loc = [p \in Procs |-> InitLoc]
    /\ hist = [p \in Procs |-> InitHist]
    /\ log = [p \in Procs |-> <<>>]
    /\ call = NoCall
    /\ user = NoUser
    /\ listening = FALSE
    /\ dom = InitDom
    /\ shows = <<>>
    /\ signIns = 0
    /\ report = [external |-> 1, inline |-> 1]
    /\ loads = <<>>

pipelineVars ==
    << fsVars, cfgVars, adminVars, firestoreDoc, hosted, runs, pc, loc, hist,
       log, call >>

\* The store's rule for reading the document, as the publisher's list is
\* meant to be used: the signed-in account is one of authorizedEmails.
RuleAllows(u) ==
    /\ u # NoUser
    /\ firestoreDoc.exists
    /\ \E i \in 1..Len(firestoreDoc.authorizedEmails) :
          firestoreDoc.authorizedEmails[i] = u

\* How db.collection('config').doc('dashboard').get() can end for a request
\* made as u: the document, no such document, a denial, or a failure of the
\* network.
FetchOutcomes(u) ==
    {"unavailable"}
    \cup (IF RuleAllows(u) THEN {"doc"} ELSE {"denied"})
    \cup (IF u # NoUser /\ ~firestoreDoc.exists THEN {"absent"} ELSE {})

NoError == [code |-> "", message |-> ""]

\* fetchKeyFromFirestore on outcome o of the get(): the key returned, null,
\* or the error thrown.
fetchKeyFromFirestore(o) ==
    CASE o = "doc" ->
           [keyHex |-> firestoreDoc.encryptionKey,
            null |-> firestoreDoc.encryptionKey = KeyHex(0), thrown |-> NoError]
      [] o = "absent" -> [keyHex |-> KeyHex(0), null |-> TRUE, thrown |-> NoError]
      [] o = "denied" ->
           [keyHex |-> KeyHex(0), null |-> FALSE,
            thrown |-> [code |-> "permission-denied",
                        message |-> "Missing or insufficient permissions."]]
      [] OTHER ->
           [keyHex |-> KeyHex(0), null |-> FALSE,
            thrown |-> [code |-> "unavailable", message |-> "Failed to get document"]]

\* A decryptDashboard that hands back the payload when it cannot open it.
decryptDashboardOrPayload(encryptedHex, keyHex) ==
    IF IsCipher(encryptedHex) /\ keyHex = KeyHex(encryptedHex.n)
    THEN [dashboardHtml |-> Plain(encryptedHex.n), thrown |-> NoError]
    ELSE [dashboardHtml |-> encryptedHex, thrown |-> NoError]

\* decryptDashboard: AES-GCM opens the payload only under the key it was
\* sealed with, and only when no byte of it was altered.
decryptDashboard(encryptedHex, keyHex) ==
    IF IsCipher(encryptedHex) /\ keyHex = KeyHex(encryptedHex.n)
    THEN [dashboardHtml |-> Plain(encryptedHex.n), thrown |-> NoError]
    ELSE [dashboardHtml |-> NoMarkup,
          thrown |-> [code |-> "", message |-> "OperationError"]]

\* showError(message, showSignOut)
showError(d, message, showSignOut) ==
    [d EXCEPT !.error = message, !.errorShown = TRUE, !.loadingHidden = TRUE,
              !.signOutShown = showSignOut]

\* A catch block with one message for every error.
CaughtAlike(d, e) ==
    showError(d, << "Failed to decrypt dashboard: ", e.message >>, FALSE)

\* The catch block of showDashboard.
Caught(d, e) ==
    IF e.code = "permission-denied"
    THEN showError(d, << "Access denied. Your account is not authorized." >>, TRUE)
    ELSE showError(d, << "Failed to decrypt dashboard: ", e.message >>, FALSE)

\* A showDashboard call suspended at its first await; `stale` becomes true
\* when the page shows signed-out or an error after the call got its key.
NewShow(u) == [stage |-> "fetch", as |-> u, keyHex |-> KeyHex(0), stale |-> FALSE]

Without(shs, i) == SubSeq(shs, 1, i - 1) \o SubSeq(shs, i + 1, Len(shs))

Outdated(shs) ==
    [i \in 1..Len(shs) |->
       IF shs[i].stage = "decrypt" THEN [shs[i] EXCEPT !.stale = TRUE] ELSE shs[i]]

\* The handler given to onAuthStateChanged, run for u up to the first await
\* of showDashboard.
AuthStateChanged(u) ==
    IF u # NoUser
    THEN LET d == [dom EXCEPT !.loadingHidden = FALSE, !.signInHidden = TRUE]
         IN IF Usable(DashboardData(hosted.index))
            THEN /\ dom' = d
                 /\ shows' = Append(shows, NewShow(u))
            ELSE /\ dom' = showError(d, << "Dashboard content not available" >>, FALSE)
                 /\ shows' = shows
    ELSE /\ dom' = [dom EXCEPT !.authenticated = FALSE, !.signInHidden = FALSE,
                               !.loadingHidden = TRUE, !.errorShown = FALSE,
                               !.signOutShown = FALSE]
         /\ shows' = Outdated(shows)

\* DOMContentLoaded and the 500 ms timer: the handler is registered and runs
\* for the current user.
Register ==
    /\ ~listening
    /\ listening' = TRUE
    /\ AuthStateChanged(user)
    /\ UNCHANGED << pipelineVars, user, signIns, report, loads >>

\* An account signs in: through signIn(), a kept session or another tab.
SignIn(u) ==
    /\ user # u
    /\ signIns < MaxSignIns
    /\ user' = u
    /\ signIns' = signIns + 1
    /\ IF listening THEN AuthStateChanged(u) ELSE UNCHANGED << dom, shows >>
    /\ UNCHANGED << pipelineVars, listening, report, loads >>

\* signIn(): signInWithPopup is rejected.
SignInFails ==
    /\ user = NoUser
    /\ ~dom.signInHidden
    /\ ~dom.authenticated
    /\ dom' = showError(dom, << "Sign-in failed: ", "popup closed" >>, FALSE)
    /\ UNCHANGED << pipelineVars, user, listening, shows, signIns, report, loads >>

\* The account signs out: signOut(), or a sign-out in another tab.
SignOut ==
    /\ user # NoUser
    /\ user' = NoUser
    /\ IF listening THEN AuthStateChanged(NoUser) ELSE UNCHANGED << dom, shows >>
    /\ UNCHANGED << pipelineVars, listening, signIns, report, loads >>

\* showDashboard resumes from await fetchKeyFromFirestore().
FetchReturns ==
    /\ \E i \in 1..Len(shows) :
         /\ shows[i].stage = "fetch"
         /\ \E o \in FetchOutcomes(shows[i].as) \cup FetchOutcomes(user) :
              LET r == fetchKeyFromFirestore(o)
                  d == [dom EXCEPT !.fetch = o]
              IN IF r.thrown # NoError
                 THEN /\ dom' = Caught(d, r.thrown)
                      /\ shows' = Outdated(Without(shows, i))
                 ELSE IF r.null
                 THEN /\ dom' = Caught(d, [code |-> "",
                                  message |-> "Could not retrieve encryption key"])
                      /\ shows' = Outdated(Without(shows, i))
                 ELSE /\ dom' = d
                      /\ shows' = [shows EXCEPT ![i].stage = "decrypt",
                                                ![i].keyHex = r.keyHex]
    /\ UNCHANGED << pipelineVars, user, listening, signIns, report, loads >>

\* A script element appended to body by the j-th loadExternalScripts call:
\* the i-th external script of the report, or its i-th inline script.
External(j, i) == [kind |-> "external", load |-> j, i |-> i]
Inline(j, i) == [kind |-> "inline", load |-> j, i |-> i]

\* The callback given to loadExternalScripts by the j-th call: one script
\* element per inline script, in the order of the report.
callback(body, j, inlineScripts) ==
    body \o [i \in 1..inlineScripts |-> Inline(j, i)]

\* A counter that lets the callback run at the first script that settles.
AllLoadedAtFirst(loaded, urls) == loaded >= 1

\* if (loaded === urls.length)
AllLoaded(loaded, urls) == loaded = urls

\* loadExternalScripts(urls, callback), called as the j-th: with no url the
\* callback runs at once, else one element per url is appended and waits.
loadExternalScripts(body, j, urls, inlineScripts) ==
    IF urls = 0
    THEN [body |-> callback(body, j, inlineScripts),
          load |-> [urls |-> 0, inline |-> inlineScripts, loaded |-> 0,
                    state |-> <<>>]]
    ELSE [body |-> body \o [i \in 1..urls |-> External(j, i)],
          load |-> [urls |-> urls, inline |-> inlineScripts, loaded |-> 0,
                    state |-> [i \in 1..urls |-> "pending"]]]

\* showDashboard resumes from await decryptDashboard(...): the report is
\* mounted, its scripts started and the page marked, or the error shown.
DecryptReturns ==
    /\ \E i \in 1..Len(shows) :
         /\ shows[i].stage = "decrypt"
         /\ LET r == decryptDashboard(DashboardData(hosted.index), shows[i].keyHex)
                l == loadExternalScripts(dom.body, Len(loads) + 1,
                                         report.external, report.inline)
            IN IF r.thrown # NoError
               THEN /\ dom' = Caught(dom, r.thrown)
                    /\ shows' = Outdated(Without(shows, i))
                    /\ loads' = loads
               ELSE /\ dom' = [dom EXCEPT !.container = r.dashboardHtml,
                                          !.authenticated = TRUE,
                                          !.body = l.body,
                                          !.mount = [some |-> TRUE,
                                                     fetched |-> shows[i].keyHex # KeyHex(0),
                                                     decrypted |-> TRUE,
                                                     stale |-> shows[i].stale]]
                    /\ shows' = Without(shows, i)
                    /\ loads' = Append(loads, l.load)
    /\ UNCHANGED << pipelineVars, user, listening, signIns, report >>

\* s.onload = s.onerror: an external script element settles, loaded or
\* failed, and the last one of its call runs the callback.
ScriptSettles ==
    /\ \E j \in 1..Len(loads) :
         \E i \in 1..loads[j].urls, o \in {"loaded", "failed"} :
            /\ loads[j].state[i] = "pending"
            /\ LET loaded == loads[j].loaded + 1
               IN /\ loads' = [loads EXCEPT ![j].state[i] = o, ![j].loaded = loaded]
                  /\ dom' = IF AllLoaded(loaded, loads[j].urls)
                            THEN [dom EXCEPT !.body = callback(dom.body, j, loads[j].inline)]
                            ELSE dom
    /\ UNCHANGED << pipelineVars, user, listening, shows, signIns, report >>

NextViewer ==
    \/ Register
    \/ \E u \in Viewers : SignIn(u)
    \/ SignInFails
    \/ SignOut
    \/ FetchReturns
    \/ DecryptReturns
    \/ ScriptSettles

SpecViewer == InitViewer /\ [][NextViewer]_vars

\* C18: from every state of the page a sign-out moves it to signed-out and
\* clears the rendered report: once the account has signed out the page is
\* not marked authenticated and #dashboard-container holds no decrypted
\* markup.
C18_SignOutResetsViewer ==
    [][(user # NoUser /\ user' = NoUser) =>
          (~dom'.authenticated /\ dom'.container = NoMarkup)]_vars

\* C19: a key fetch or decryption that completes after the sign-out neither
\* mounts the report nor marks the page authenticated: while nobody is signed
\* in the container does not change and the page stays unmarked.
C19_SignOutDiscardsInFlightWork ==
    [][(user = NoUser /\ user' = NoUser) =>
          (dom'.container = dom.container /\ ~dom'.authenticated)]_vars

\* C20: the report is mounted only by a showDashboard call that got the key
\* from the store and decrypted the payload with it, and whose fetch is not
\* older than the last signed-out or error state of the page.
C20_DenyByDefault ==
    dom.mount.some =>
       /\ dom.mount.fetched
       /\ dom.mount.decrypted
       /\ ~dom.mount.stale


-----------------------------------------------------------------------------
(* Errors of the viewer's page *)

\* showDashboard calls waiting for the key, and waiting for the plaintext.
Fetching(shs) == {i \in 1..Len(shs) : shs[i].stage = "fetch"}
Decrypting(shs) == {i \in 1..Len(shs) : shs[i].stage = "decrypt"}

\* The served payload is one the key of the stored document opens.
Openable ==
    LET data == DashboardData(hosted.index)
    IN /\ data.t = "cipher"
       /\ firestoreDoc.exists
       /\ firestoreDoc.encryptionKey = KeyHex(data.n)

DecryptFailedText == << "Failed to decrypt dashboard: ", "OperationError" >>
KeyUnavailableText ==
    << "Failed to decrypt dashboard: ", "Could not retrieve encryption key" >>
AccessDeniedText == << "Access denied. Your account is not authorized." >>

\* C21: when the payload was altered or the key is not the one it was sealed
\* with, a showDashboard call that comes back from decryptDashboard shows the
\* decryption error, and the page never holds anything in
\* #dashboard-container, is never marked authenticated, and never takes the
\* payload for the report.
C21_DecryptFailureMountsNothing ==
    /\ [](~Openable =>
            /\ dom.container = NoMarkup
            /\ ~dom.authenticated
            /\ dom.mount = NoMount)
    /\ [](dom.container # DashboardData(hosted.index))
    /\ [][(~Openable /\ Cardinality(Decrypting(shows')) < Cardinality(Decrypting(shows))) =>
            /\ dom'.error = DecryptFailedText
            /\ dom'.errorShown
            /\ dom'.container = dom.container
            /\ dom'.authenticated = dom.authenticated]_vars

C21_Witness ==
    /\ ~Openable
    /\ DashboardData(hosted.index) = Tampered(1)
    /\ firestoreDoc.encryptionKey = KeyHex(1)
    /\ dom.error = DecryptFailedText
    /\ dom.errorShown
    /\ dom.container = NoMarkup


\* C22: a showDashboard call whose get() of the key document is denied shows
\* the access-denied message with the sign-out button; one that finds no
\* document, or a document without a key, shows the key-unavailable message;
\* neither goes on to decryptDashboard; and the messages of a denial, of an
\* unavailable key and of a failed decryption differ from one another.
C22_KeyFetchErrors ==
    /\ [][(/\ Len(shows') < Len(shows)
           /\ Cardinality(Fetching(shows')) < Cardinality(Fetching(shows))) =>
            /\ dom'.fetch = "denied" =>
                  (dom'.error = AccessDeniedText /\ dom'.errorShown /\ dom'.signOutShown)
            /\ dom'.fetch \in {"absent", "doc"} =>
                  (dom'.error = KeyUnavailableText /\ dom'.errorShown)
            /\ Cardinality(Decrypting(shows')) = Cardinality(Decrypting(shows))]_vars
    /\ [](/\ AccessDeniedText # KeyUnavailableText
          /\ AccessDeniedText # DecryptFailedText
          /\ KeyUnavailableText # DecryptFailedText)

C22_Witness ==
    /\ dom.fetch = "denied"
    /\ user = << "x" >>
    /\ dom.error = AccessDeniedText
    /\ dom.errorShown
    /\ dom.signOutShown
    /\ shows = <<>>
    /\ dom.mount = NoMount


-----------------------------------------------------------------------------
(* Scripts of the mounted report *)

\* The listed account signed in, out and in again on a page whose payload the
\* stored key opens; both showDashboard calls have their key and wait for
\* the plaintext of a report with any of the script sets.
InitScripts ==
    /\ dirExists = TRUE
    /\ indexExists = TRUE
    /\ indexHtml = Template
    /\ dashboardHtml = FALSE
    /\ recipient = [set |-> TRUE, segs |-> << <<"a">> >>]
    /\ serviceAccount = TRUE
    /\ verbose = FALSE
    /\ firebaseApp = FALSE
    /\ firestoreClient = FALSE
    /\ firestoreDoc = WrittenDoc(KeyHex(1), << <<"a">> >>)
    /\ hosted = [published |-> TRUE,
                 index |-> InjectedContent(Template, Title, CipherHex(1)),
                 plain |-> FALSE]
    /\ runs = 0
    /\ pc = [p \in Procs |-> "idle"]
    /\ loc = [p \in Procs |-> InitLoc]
    /\ hist = [p \in Procs |-> InitHist]
    /\ log = [p \in Procs |-> <<>>]
    /\ call = NoCall
    /\ user = << "a" >>
    /\ listening = TRUE
    /\ dom = [InitDom EXCEPT !.loadingHidden = FALSE, !.signInHidden = TRUE,
                             !.fetch = "doc"]
    /\ shows = [i \in 1..2 |-> [stage |-> "decrypt", as |-> << "a" >>,
                                 keyHex |-> KeyHex(1), stale |-> FALSE]]
    /\ signIns = 2
    /\ report \in Reports
    /\ loads = <<>>

NextScripts ==
    \/ DecryptReturns
    \/ ScriptSettles

SpecScripts == InitScripts /\ [][NextScripts]_vars

\* The inline scripts of the j-th call run so far, in the order they ran.
RECURSIVE InlineRun(_, _)
InlineRun(body, j) ==
    IF body = <<>> THEN <<>>
    ELSE LET e == Head(body)
         IN (IF e.kind = "inline" /\ e.load = j THEN << e.i >> ELSE <<>>)
               \o InlineRun(Tail(body), j)

\* Every external script of the j-th call has loaded or failed.
AllSettled(j) == \A i \in 1..loads[j].urls : loads[j].state[i] # "pending"

\* C23: for every report and every order in which its external scripts
\* settle, no inline script of a mount has run while one of its external
\* scripts is pending, and once all have loaded or failed (at once when there
\* is none) every inline script has run exactly once, in document order.
C23_TwoWaveScripts ==
    \A j \in 1..Len(loads) :
       InlineRun(dom.body, j) =
          IF AllSettled(j) THEN [i \in 1..loads[j].inline |-> i] ELSE <<>>

C23_Witness ==
    /\ Len(loads) = 2
    /\ loads[1].state = << "failed", "pending" >>
    /\ loads[2].state = << "loaded", "failed" >>
    /\ loads[2].inline = 2
    /\ InlineRun(dom.body, 2) = << 1, 2 >>
    /\ InlineRun(dom.body, 1) = <<>>


-----------------------------------------------------------------------------
(* The payload byte by byte: encrypt_dashboard_with_random_key and the
   viewer's decryptDashboard *)

\* os.urandom(32), os.urandom(12), the tag AES-GCM appends, and
\* encrypted.slice(0, 12).
KeyLen == 32
NonceLen == 12
TagLen == 16
IvLen == 12

\* Characters of a report: 'a', e with acute accent, and U+FEFF.
CodePoints == {97, 233, 65279}

\* Longest report, in characters.
MaxPlainLen == 2

RECURSIVE Strings(_)
Strings(n) ==
    IF n = 0 THEN { <<>> }
    ELSE Strings(n - 1)
           \cup { Append(s, c) : s \in { t \in Strings(n - 1) : Len(t) = n - 1 },
                                 c \in CodePoints }

\* Two outcomes of each os.urandom call.
urandom(len, k) == [i \in 1..len |-> (40 * k + i) % 256]

\* str.encode("utf-8")
RECURSIVE encode(_)
encode(s) ==
    IF s = <<>> THEN <<>>
    ELSE LET c == Head(s)
         IN (IF c < 128 THEN << c >>
             ELSE IF c < 2048 THEN << 192 + (c \div 64), 128 + (c % 64) >>
             ELSE << 224 + (c \div 4096), 128 + ((c \div 64) % 64), 128 + (c % 64) >>)
               \o encode(Tail(s))

\* UTF-8 decoding, U+FFFD for a byte that starts no character.
RECURSIVE Utf8Decode(_)
Utf8Decode(b) ==
    IF b = <<>> THEN <<>>
    ELSE IF b[1] < 128 THEN << b[1] >> \o Utf8Decode(Tail(b))
    ELSE IF b[1] >= 192 /\ b[1] < 224 /\ Len(b) >= 2
    THEN << (b[1] - 192) * 64 + (b[2] - 128) >> \o Utf8Decode(SubSeq(b, 3, Len(b)))
    ELSE IF b[1] >= 224 /\ b[1] < 240 /\ Len(b) >= 3
    THEN << (b[1] - 224) * 4096 + (b[2] - 128) * 64 + (b[3] - 128) >>
            \o Utf8Decode(SubSeq(b, 4, Len(b)))
    ELSE << 65533 >> \o Utf8Decode(Tail(b))

\* new TextDecoder().decode(bytes): ignoreBOM is false, so a byte order mark
\* at the start is dropped.
TextDecoder_decode(b) ==
    IF Len(b) >= 3 /\ SubSeq(b, 1, 3) = << 239, 187, 191 >>
    THEN Utf8Decode(SubSeq(b, 4, Len(b)))
    ELSE Utf8Decode(b)

HexDigits ==
    << "0", "1", "2", "3", "4", "5", "6", "7", "8", "9", "a", "b", "c", "d", "e", "f" >>

\* bytes.hex()
RECURSIVE hex(_)
hex(b) ==
    IF b = <<>> THEN <<>>
    ELSE << HexDigits[(Head(b) \div 16) + 1], HexDigits[(Head(b) % 16) + 1] >>
            \o hex(Tail(b))

\* The value of a hexadecimal digit, -1 for another character.
DigitValue(c) ==
    IF \E i \in 1..16 : HexDigits[i] = c
    THEN (CHOOSE i \in 1..16 : HexDigits[i] = c) - 1
    ELSE -1

\* parseInt(two characters, 16), -1 for NaN.
parseInt16(c1, c2) ==
    IF DigitValue(c1) < 0 THEN -1
    ELSE IF DigitValue(c2) < 0 THEN DigitValue(c1)
    ELSE 16 * DigitValue(c1) + DigitValue(c2)

\* hexToBytes: a Uint8Array stores 0 for NaN.
hexToBytes(h) ==
    [i \in 1..(Len(h) \div 2) |->
       LET v == parseInt16(h[2 * i - 1], h[2 * i]) IN IF v < 0 THEN 0 ELSE v]

RECURSIVE Sum(_)
Sum(b) == IF b = <<>> THEN 0 ELSE Head(b) + Sum(Tail(b))

\* AES-GCM stands as a cipher with the two properties the library gives:
\* opening under the sealing key and nonce returns the data, and the tag
\* depends on the key, the nonce and every bit of the ciphertext.
Keystream(key, nonce, i) == (key[1] + 3 * nonce[1] + 7 * i) % 256
GcmTag(key, nonce, ct) ==
    [j \in 1..TagLen |-> (Sum(ct) + 5 * key[1] + 11 * nonce[1] + Len(ct) + j) % 256]

\* AESGCM(key).encrypt(nonce, data, None): the ciphertext with the tag appended.
aesgcm_encrypt(key, nonce, data) ==
    LET ct == [i \in 1..Len(data) |-> (data[i] + Keystream(key, nonce, i)) % 256]
    IN ct \o GcmTag(key, nonce, ct)

\* A decrypt that does not compare the tag.
subtle_decrypt_unchecked(key, iv, data) ==
    LET n == IF Len(data) >= TagLen THEN Len(data) - TagLen ELSE 0
    IN [thrown |-> FALSE,
        bytes |-> [i \in 1..n |-> (data[i] + 256 - Keystream(key, iv, i)) % 256]]

\* crypto.subtle.decrypt({name: 'AES-GCM', iv}, key, data): the plaintext, or
\* an OperationError when the tag does not fit.
subtle_decrypt(key, iv, data) ==
    IF Len(data) < TagLen THEN [thrown |-> TRUE, bytes |-> <<>>]
    ELSE LET ct == SubSeq(data, 1, Len(data) - TagLen)
             tag == SubSeq(data, Len(data) - TagLen + 1, Len(data))
         IN IF Len(key) = KeyLen /\ tag = GcmTag(key, iv, ct)
            THEN [thrown |-> FALSE,
                  bytes |-> [i \in 1..Len(ct) |->
                               (ct[i] + 256 - Keystream(key, iv, i)) % 256]]
            ELSE [thrown |-> TRUE, bytes |-> <<>>]

\* encrypt_dashboard_with_random_key(html) when os.urandom gives key and nonce.
EncryptDashboard(html, key, nonce) ==
    LET ciphertext == aesgcm_encrypt(key, nonce, encode(html))
        encrypted == nonce \o ciphertext
    IN [encrypted_hex |-> hex(encrypted), key_hex |-> hex(key)]

\* decryptDashboard(encryptedHex, keyHex), byte by byte.
DecryptDashboard(encryptedHex, keyHex) ==
    LET encrypted == hexToBytes(encryptedHex)
        nonce == SubSeq(encrypted, 1, IvLen)
        ciphertext == SubSeq(encrypted, IvLen + 1, Len(encrypted))
        decrypted == subtle_decrypt(hexToBytes(keyHex), nonce, ciphertext)
    IN IF decrypted.thrown
       THEN [thrown |-> TRUE, text |-> <<>>]
       ELSE [thrown |-> FALSE, text |-> TextDecoder_decode(decrypted.bytes)]

\* One bit of a byte inverted.
Pow2(k) == IF k = 0 THEN 1 ELSE IF k = 1 THEN 2 ELSE IF k = 2 THEN 4
           ELSE IF k = 3 THEN 8 ELSE IF k = 4 THEN 16 ELSE IF k = 5 THEN 32
           ELSE IF k = 6 THEN 64 ELSE 128
FlipBit(b, k) == IF (b \div Pow2(k)) % 2 = 1 THEN b - Pow2(k) ELSE b + Pow2(k)

\* A report, and what os.urandom will give for the key and the nonce.
InitCrypto ==
    /\ AtRest
    /\ serviceAccount = TRUE
    /\ firestoreDoc = NoDoc
    /\ call \in { [fn |-> "none", html |-> s, key |-> urandom(KeyLen, k),
                   nonce |-> urandom(NonceLen, n)] :
                    s \in Strings(MaxPlainLen), k \in 1..2, n \in 1..2 }

\* encrypt_dashboard_with_random_key(html)
EncryptCall ==
    /\ call.fn = "none"
    /\ LET r == EncryptDashboard(call.html, call.key, call.nonce)
       IN call' = [fn |-> "encrypt_dashboard_with_random_key", html |-> call.html,
                   key |-> call.key, nonce |-> call.nonce,
                   encrypted_hex |-> r.encrypted_hex, key_hex |-> r.key_hex,
                   served |-> r.encrypted_hex, flipped |-> FALSE]
    /\ UNCHANGED << fsVars, cfgVars, adminVars, firestoreDoc, hosted, runs, pc,
                    loc, hist, log, viewerVars >>

\* One bit of the ciphertext or of the tag is inverted on the way to the
\* viewer.
FlipOneBit ==
    /\ call.fn = "encrypt_dashboard_with_random_key"
    /\ ~call.flipped
    /\ LET b == hexToBytes(call.served)
       IN \E i \in (NonceLen + 1)..Len(b), k \in 0..7 :
             call' = [call EXCEPT !.served = hex([b EXCEPT ![i] = FlipBit(b[i], k)]),
                                  !.flipped = TRUE]
    /\ UNCHANGED << fsVars, cfgVars, adminVars, firestoreDoc, hosted, runs, pc,
                    loc, hist, log, viewerVars >>

\* The viewer's decryptDashboard on the served payload with the returned key.
DecryptCall ==
    /\ call.fn = "encrypt_dashboard_with_random_key"
    /\ call' = [fn |-> "decryptDashboard", html |-> call.html, key |-> call.key,
                nonce |-> call.nonce, encrypted_hex |-> call.encrypted_hex,
                key_hex |-> call.key_hex, served |-> call.served,
                flipped |-> call.flipped,
                ret |-> DecryptDashboard(call.served, call.key_hex)]
    /\ UNCHANGED << fsVars, cfgVars, adminVars, firestoreDoc, hosted, runs, pc,
                    loc, hist, log, viewerVars >>

NextCrypto ==
    \/ EncryptCall
    \/ FlipOneBit
    \/ DecryptCall

SpecCrypto == InitCrypto /\ [][NextCrypto]_vars

\* C24: encrypt_dashboard_with_random_key returns the hex text of the 12-byte
\* nonce, the ciphertext and the 16-byte tag, and the hex text of the 32-byte
\* key, and decryptDashboard on that payload and key returns the report it was
\* given, for every report.
C24_RoundTrip ==
    /\ call.fn \in {"encrypt_dashboard_with_random_key", "decryptDashboard"} =>
          /\ call.key_hex = hex(call.key)
          /\ Len(call.key_hex) = 2 * KeyLen
          /\ Len(call.encrypted_hex) = 2 * (NonceLen + Len(encode(call.html)) + TagLen)
          /\ SubSeq(call.encrypted_hex, 1, 2 * NonceLen) = hex(call.nonce)
    /\ (call.fn = "decryptDashboard" /\ ~call.flipped) =>
          /\ ~call.ret.thrown
          /\ call.ret.text = call.html

\* The same for the reports that do not begin with U+FEFF.
C24_RoundTripWithoutMark ==
    (/\ call.fn = "decryptDashboard"
     /\ ~call.flipped
     /\ (call.html = <<>> \/ Head(call.html) # 65279)) =>
          /\ ~call.ret.thrown
          /\ call.ret.text = call.html

\* C25: when one bit of the ciphertext or of the tag of a payload is inverted,
\* decryptDashboard with the key returned beside the payload fails and
\* returns no text.
C25_TamperDetection ==
    (call.fn = "decryptDashboard" /\ call.flipped) =>
       /\ call.ret.thrown
       /\ call.ret.text = <<>>

C25_Witness ==
    /\ call.fn = "decryptDashboard"
    /\ call.flipped
    /\ call.html = << 97, 233 >>
    /\ call.ret.thrown
    /\ hexToBytes(call.served)[NonceLen + 1] # hexToBytes(call.encrypted_hex)[NonceLen + 1]


-----------------------------------------------------------------------------
(* How failures reach the caller of deploy_dashboard *)

\* The failure(reason) of a DeployResult.
Failure(reason) == [some |-> FALSE, text |-> << reason >>]

\* The kind of the failure of the run of p, "none" when nothing failed.
FailureKind(p) ==
    CASE hist[p].failed = "precondition" -> "TemplateMissing"
      [] hist[p].failed = "encrypt" -> "EncryptionFailed"
      [] hist[p].failed = "key_store" ->
           IF serviceAccount THEN "KeyStoreWriteFailed" ELSE "ConfigurationMissing"
      [] hist[p].failed = "inject" -> "InjectionFailed"
      [] hist[p].fallback = "timeout" \/ (hist[p].direct = "timeout" /\ hist[p].fallback = "none") ->
           "InvocationTimeout"
      [] loc[p].result.done /\ loc[p].result.returncode # 0 -> "InvocationNonZeroExit"
      [] UrlUnavailable(p) -> "UrlUnparseable"
      [] OTHER -> "none"

\* C26: a run of deploy_dashboard in which encryption, the key-store write,
\* the injection or the hosting invocation failed returns a failure whose
\* reason is the kind of that failure, so that runs failing in different
\* ways return different values.
C26_TaggedFailures ==
    \A p \in Procs :
       (Returned(p) /\ FailureKind(p) # "none") =>
           hist[p].ret = Failure(FailureKind(p))


-----------------------------------------------------------------------------
(* Injection into a file that lacks a placeholder *)

\* prepare_deployment has written index.html and not yet returned, or has
\* returned True.
Injected(p) == pc[p] \in {"remove_stray", "deploy"}

\* C28: prepare_deployment writes back the file it read with each
\* placeholder that is there replaced and every other part as it was, and
\* goes on to return True, whether or not the placeholders are there: a file
\* without __DASHBOARD_DATA_PLACEHOLDER__ gets no payload, a file without
\* either placeholder is written back as it was read.
C28_MissingPlaceholderIsNoOp ==
    \A p \in MainProcs :
       Injected(p) =>
          LET read == hist[p].preIndex
          IN /\ hist[p].failed = "none"
             /\ Len(indexHtml) = Len(read)
             /\ \A i \in 1..Len(read) :
                   indexHtml[i] =
                      IF read[i] = TITLE_PLACEHOLDER THEN Title
                      ELSE IF read[i] = DASHBOARD_DATA_PLACEHOLDER
                      THEN loc[p].encrypted_hex
                      ELSE read[i]
             /\ ~Contains(read, DASHBOARD_DATA_PLACEHOLDER) =>
                   ~Contains(indexHtml, loc[p].encrypted_hex)
             /\ (~Contains(read, DASHBOARD_DATA_PLACEHOLDER)
                    /\ ~Contains(read, TITLE_PLACEHOLDER)) => indexHtml = read

C28_Witness ==
    /\ pc["A"] = "deploy"
    /\ hist["A"].step = "prepared"
    /\ hist["A"].preIndex # <<>>
    /\ Contains(hist["A"].preIndex, TITLE_PLACEHOLDER)
    /\ ~Contains(hist["A"].preIndex, DASHBOARD_DATA_PLACEHOLDER)
    /\ Contains(indexHtml, Title)
    /\ ~ContainsCipher(indexHtml)


-----------------------------------------------------------------------------
(* The end of a run: restore failures, and the key beside the published page *)

\* C29: when the rewrite of index.html in restore_index_html fails, the
\* failure is logged, restore_index_html still returns, and deploy_dashboard
\* returns what deploy() returned.
C29_RestoreFailureLogged ==
    [][\A p \in Procs :
          (pc[p] = "restore" /\ pc'[p] # "restore" /\ hist'[p].restore # "ok") =>
             /\ Len(log'[p]) > Len(log[p])
             /\ pc'[p] = "return"
             /\ loc'[p].url = loc[p].url]_vars

\* C30: whenever no run is in progress, the key of the config/dashboard
\* document is the key of the payload of the page the site serves, whatever
\* failed in the runs so far.
C30_KeyPairedWithPublishedPage ==
    (NoRunInProgress /\ hosted.published /\ ContainsCipher(hosted.index)) =>
        /\ firestoreDoc.exists
        /\ \A i \in 1..Len(hosted.index) :
              IsCipher(hosted.index[i]) =>
                 firestoreDoc.encryptionKey = KeyHex(hosted.index[i].n)


-----------------------------------------------------------------------------
(* Two runs of deploy_dashboard at once on one firebase_public *)

\* Both runs find the directory, the template, the credentials and a
\* recipient; nothing holds a lock on index.html.
InitOverlap ==
    /\ Init
    /\ dirExists
    /\ indexExists
    /\ serviceAccount
    /\ ~verbose
    /\ dashboardHtml
    /\ recipient = [set |-> TRUE, segs |-> << <<"a">>, <<>>, <<" ">> >>]

\* Each process calls deploy_dashboard once and their steps interleave.  No
\* step fails: files are read, written and removed, the key is stored, and
\* the hosting command is found and exits 0.
NextOverlap ==
    \E p \in Procs :
       \/ pc[p] = "idle" /\ Start(p)
       \/ CheckPreconditions(p) /\ hist'[p].failed = "none"
       \/ Encrypt(p) /\ hist'[p].failed = "none"
       \/ StoreKey(p) /\ hist'[p].failed = "none"
       \/ Inject(p) /\ hist'[p].failed = "none"
       \/ RemoveStray(p) /\ ~hist'[p].removeRaised
       \/ DeployDirect(p) /\ hist'[p].direct = "exit0"
       \/ DeployResult(p)
       \/ Restore(p) /\ hist'[p].restore = "ok"
       \/ Return(p)

SpecOverlap == InitOverlap /\ [][NextOverlap]_vars

Other(p) == CHOOSE q \in Procs : q # p

\* The injection of p found a payload already in index.html.
InjectedTwice(p) == ContainsCipher(hist[p].injectRead)

-----------------------------------------------------------------------------
(* The page handed to the hosting command *)

\* C31: whenever a strategy of deploy() is about to be invoked, index.html
\* holds the payload this run encrypted, whose key this run wrote to the
\* store, and no payload of an earlier run.
C31_DeploysOwnCiphertext ==
    \A p \in MainProcs :
       AtHostingInvocation(p) =>
          /\ Contains(indexHtml, loc[p].encrypted_hex)
          /\ firestoreDoc.encryptionKey = loc[p].key_hex
          /\ \A i \in 1..Len(indexHtml) :
                IsCipher(indexHtml[i]) => indexHtml[i] = loc[p].encrypted_hex


-----------------------------------------------------------------------------
(* The lazily initialised key-store client *)

\* C32: after any sequence of calls, with any failures inside them, the
\* module holds an app only together with a client: _firebase_app is not
\* None implies _firestore_client is not None, so that _init_firebase_admin
\* returns True only with a usable client.
C32_LazyInitConsistent ==
    /\ firebaseApp => firestoreClient
    /\ \A o \in InitOutcomes :
          init_firebase_admin(o).ret => init_firebase_admin(o).client


-----------------------------------------------------------------------------
(* The value deploy() returns *)

\* C33: whenever deploy() returns something other than None it is a string
\* that is not empty; a marker line with nothing after the marker, or only
\* colour sequences, gives no empty result and leaves .firebaserc to be read.
C33_ResultIsUsableUrl ==
    call.fn = "deploy" =>
       /\ call.ret.url.some => call.ret.url.text # <<>>
       /\ (/\ MarkerLines(call.stdout) # {}
           /\ Strip(StripAnsi(Strip(TextAfterMarker(call.stdout)))) = <<>>)
             => call.ret.rc


-----------------------------------------------------------------------------
(* main() of family_expenses.py, examined on its own: `call` holds its     *)
(* frame, the files of the temp directory and the calls it has made        *)

TempKinds == <<"json", "csv", "html">>

Range(s) == { s[i] : i \in 1..Len(s) }

ArgSets == [email : BOOLEAN, no_upload : BOOLEAN, local : BOOLEAN,
            full_log : BOOLEAN]

NoCache == [drive |-> "unset", download |-> "unset", local |-> "unset",
            read |-> "unset"]

InitMain ==
    /\ AtRest
    /\ serviceAccount = TRUE
    /\ firestoreDoc = NoDoc
    /\ call \in { [fn |-> "main", pc |-> "parse_args", args |-> a,
                   gdrive_configured |-> g, email_configured |-> e,
                   cache |-> NoCache, cached |-> "unset",
                   temp_files |-> <<>>, tmp |-> {},
                   file_id |-> FALSE, dashboard_link |-> FALSE,
                   calls |-> <<>>, raising |-> FALSE, result |-> "running"] :
                    a \in ArgSets, g \in BOOLEAN, e \in BOOLEAN }

MainUnchanged ==
    UNCHANGED << fsVars, cfgVars, adminVars, firestoreDoc, hosted, runs, pc,
                 loc, hist, log, viewerVars >>

At(label) == call.fn = "main" /\ call.result = "running" /\ call.pc = label

\* args = parse_args() and the two closures: nothing of logging_utils is
\* touched, full_log stays a local of main
ParseArgs ==
    /\ At("parse_args")
    /\ call' = [call EXCEPT !.pc = IF call.args.local THEN "load_cached_data"
                                   ELSE "fetch"]
    /\ MainUnchanged

\* find_latest_json gives None when the search raises; the most recent local
\* file is the last of the sorted names
DriveFinds == {"none", "found", "error"}
LocalFinds == {"none", "found"}
Reads == {"ok", "raises"}

load_cached_data_local_first(configured, drive, download, local, read) ==
    LET fromLocal == local = "found" /\ read = "ok"
        fromDrive == configured /\ drive = "found" /\ download = "ok"
    IN [ret |-> IF fromLocal THEN "local"
                ELSE IF fromDrive THEN "drive" ELSE "none",
        calls |-> <<"find_latest_local_json">>
                  \o (IF local = "found" THEN <<"pd.read_json">> ELSE <<>>)
                  \o (IF fromLocal \/ ~configured THEN <<>>
                      ELSE <<"gdrive.find_latest_json">>
                           \o (IF drive = "found"
                               THEN <<"gdrive.download_json">> ELSE <<>>))]

load_cached_data(configured, drive, download, local, read) ==
    LET result == configured /\ drive = "found"
        fromDrive == result /\ download = "ok"
    IN [ret |-> IF fromDrive THEN "drive"
                ELSE IF local = "found" /\ read = "ok" THEN "local"
                ELSE "none",
        calls |-> (IF configured THEN <<"gdrive.find_latest_json">> ELSE <<>>)
                  \o (IF result THEN <<"gdrive.download_json">> ELSE <<>>)
                  \o (IF fromDrive THEN <<>>
                      ELSE <<"find_latest_local_json">>
                           \o (IF local = "found"
                               THEN <<"pd.read_json">> ELSE <<>>))]

LoadCachedData ==
    /\ At("load_cached_data")
    /\ \E d \in DriveFinds, dl \in Reads, l \in LocalFinds, r \in Reads :
          LET got == load_cached_data(call.gdrive_configured, d, dl, l, r)
          IN call' = [call EXCEPT
                 !.cache = [drive |-> d, download |-> dl, local |-> l,
                            read |-> r],
                 !.cached = got.ret,
                 !.calls = @ \o got.calls,
                 !.pc = IF got.ret = "none" THEN "fetch" ELSE "process"]
    /\ MainUnchanged

\* splitwise_client.get_client() and get_raw_expenses(client)
Fetch ==
    /\ At("fetch")
    /\ \E o \in {"ok", "raises"} :
          call' = [call EXCEPT
             !.calls = @ \o <<"splitwise_client.get_raw_expenses">>,
             !.pc = "process",
             !.result = IF o = "raises" THEN "raised" ELSE @]
    /\ MainUnchanged

\* the raw_df.empty return, process_for_dashboard and the monthly summary
Process ==
    /\ At("process")
    /\ \E o \in {"ok", "empty", "raises"} :
          call' = [call EXCEPT
             !.pc = IF call.args.local THEN "create_local_files"
                    ELSE "create_temp_files",
             !.result = CASE o = "ok" -> @
                          [] o = "empty" -> "returned"
                          [] o = "raises" -> "raised"]
    /\ MainUnchanged

\* create_local_files and dashboard.generate of the local mode, which ends
\* there
LocalFiles ==
    /\ At("create_local_files")
    /\ \E o \in {"ok", "raises"} :
          call' = [call EXCEPT
             !.pc = "done",
             !.result = IF o = "ok" THEN "returned" ELSE "raised"]
    /\ MainUnchanged

\* Each temporary file is created with delete=False, then written, then
\* closed and appended; `stage` is the statement that raises, if any.
TempStages == {"ok", "json_create", "json_write", "csv_create", "csv_write",
               "html_create"}

create_temp_files(stage) ==
    [created |-> CASE stage = "json_create" -> {}
                   [] stage \in {"json_write", "csv_create"} -> {"json"}
                   [] stage \in {"csv_write", "html_create"} -> {"json", "csv"}
                   [] stage = "ok" -> Range(TempKinds),
     raised |-> stage # "ok",
     temp_files |-> IF stage = "ok" THEN TempKinds ELSE <<>>]

\* called before the try statement is entered
CreateTempFiles ==
    /\ At("create_temp_files")
    /\ \E stage \in TempStages :
          LET r == create_temp_files(stage)
          IN call' = [call EXCEPT
                 !.tmp = @ \cup r.created,
                 !.temp_files = r.temp_files,
                 !.pc = "generate",
                 !.result = IF r.raised THEN "raised" ELSE @]
    /\ MainUnchanged

Generate ==
    /\ At("generate")
    /\ \E o \in {"ok", "raises"} :
          call' = [call EXCEPT
             !.raising = o = "raises",
             !.pc = IF o = "raises" THEN "cleanup" ELSE "upload"]
    /\ MainUnchanged

Uploads(c) == ~c.args.no_upload /\ c.gdrive_configured

Shares(c) == c.args.email /\ c.email_configured

\* file_ids, dashboard_link and the sharing: upload_files raises or returns
\* the ids, of which the dashboard's may be missing
Upload ==
    /\ At("upload")
    /\ IF Uploads(call)
       THEN \E u \in {"ok", "no_id", "raises"}, s \in {"ok", "raises"} :
               LET shared == u = "ok" /\ Shares(call)
               IN call' = [call EXCEPT
                      !.calls = @ \o <<"gdrive.upload_files">>
                                  \o (IF shared
                                      THEN <<"gdrive.share_with_emails">>
                                      ELSE <<>>),
                      !.file_id = u = "ok",
                      !.dashboard_link = u = "ok",
                      !.raising = u = "raises" \/ (shared /\ s = "raises"),
                      !.pc = IF u = "raises" \/ (shared /\ s = "raises")
                             THEN "cleanup" ELSE "email"]
       ELSE call' = [call EXCEPT !.pc = "email"]
    /\ MainUnchanged

SendsEmailWithoutLink(c) == c.args.email /\ c.email_configured

SendsEmail(c) == c.args.email /\ c.email_configured /\ c.dashboard_link

Email ==
    /\ At("email")
    /\ IF SendsEmail(call)
       THEN \E o \in {"ok", "raises"} :
               call' = [call EXCEPT
                  !.calls = @ \o <<"email_sender.send_dashboard">>,
                  !.raising = o = "raises",
                  !.pc = "cleanup"]
       ELSE call' = [call EXCEPT !.pc = "cleanup"]
    /\ MainUnchanged

\* os.unlink of each path of the list; an OSError leaves the file and is
\* passed over
cleanup_temp_files(tmp, temp_files, failing) ==
    tmp \ (Range(temp_files) \ failing)

\* the finally clause, after which main returns or the exception goes on
Cleanup ==
    /\ At("cleanup")
    /\ \E failing \in SUBSET Range(call.temp_files) :
          call' = [call EXCEPT
             !.tmp = cleanup_temp_files(call.tmp, call.temp_files, failing),
             !.pc = "done",
             !.result = IF call.raising THEN "raised" ELSE "returned"]
    /\ MainUnchanged

NextMain ==
    \/ ParseArgs
    \/ LoadCachedData
    \/ Fetch
    \/ Process
    \/ LocalFiles
    \/ CreateTempFiles
    \/ Generate
    \/ Upload
    \/ Email
    \/ Cleanup

SpecMain == InitMain /\ [][NextMain]_vars

Finished == call.fn = "main" /\ call.result \in {"returned", "raised"}

Called(name) == \E i \in 1..Len(call.calls) : call.calls[i] = name

\* C34: when a cloud-mode main() has returned or raised, no file that
\* create_temp_files created is left, whichever step failed.
C34_TempFilesRemoved ==
    (Finished /\ ~call.args.local) => call.tmp = {}

-----------------------------------------------------------------------------
(* What main() sends and shares *)

\* C35: send_dashboard is called only with --email, email configured and a
\* dashboard uploaded in this run that yielded a file id; with --no-upload,
\* without a configured Drive or with --local nothing is sent or shared.
C35_EmailOnlyWithLink ==
    call.fn = "main" =>
       /\ Called("email_sender.send_dashboard") =>
             /\ call.args.email
             /\ call.email_configured
             /\ Called("gdrive.upload_files")
             /\ call.file_id
       /\ (call.args.no_upload \/ ~call.gdrive_configured \/ call.args.local) =>
             /\ ~Called("email_sender.send_dashboard")
             /\ ~Called("gdrive.share_with_emails")

C35_Witness ==
    /\ Finished
    /\ call.result = "returned"
    /\ Called("gdrive.share_with_emails")
    /\ Called("email_sender.send_dashboard")
    /\ call.tmp = {}


-----------------------------------------------------------------------------
(* The cached data of the local mode *)

\* C36: load_cached_data asks Drive first and only when Drive is configured,
\* falls back to the latest local file when Drive has no file or finding or
\* downloading it fails, gives None only when neither source yields data,
\* never raises, and the local mode calls the Splitwise API only after None.
C36_CacheFallback ==
    (call.fn = "main" /\ call.cached # "unset") =>
       LET fromDrive == /\ call.gdrive_configured
                        /\ call.cache.drive = "found"
                        /\ call.cache.download = "ok"
           fromLocal == call.cache.local = "found" /\ call.cache.read = "ok"
       IN /\ fromDrive => call.cached = "drive"
          /\ (~fromDrive /\ fromLocal) => call.cached = "local"
          /\ call.cached = "none" <=> (~fromDrive /\ ~fromLocal)
          /\ IF call.gdrive_configured
             THEN call.calls[1] = "gdrive.find_latest_json"
             ELSE /\ ~Called("gdrive.find_latest_json")
                  /\ ~Called("gdrive.download_json")
          /\ ~fromDrive => Called("find_latest_local_json")
          /\ Called("splitwise_client.get_raw_expenses") => call.cached = "none"
          /\ ~Called("splitwise_client.get_raw_expenses")
                /\ call.pc \in {"fetch", "process"}
                => call.result = "running"

C36_Witness ==
    /\ Finished
    /\ call.args.local
    /\ call.gdrive_configured
    /\ call.cache.drive = "found"
    /\ call.cache.download = "raises"
    /\ call.cached = "local"
    /\ ~Called("splitwise_client.get_raw_expenses")


-----------------------------------------------------------------------------
(* The verbose mode of logging_utils under main() *)

\* C37: once main() has parsed its arguments, the verbose mode of
\* logging_utils is on exactly when --full-log was given.
C37_FullLogEnablesVerbose ==
    (call.fn = "main" /\ call.pc # "parse_args") =>
       (verbose <=> call.args.full_log)

====
